---- MODULE Spec2Model ----
(***************************************************************************)
(* Model of the resumable append-only eigenvalue storage of                *)
(* johansen-null-eigenspectra: the file format (file_format.rs), the       *)
(* reader (reader.rs), the writer (writer.rs), the progress planner        *)
(* (progress.rs) and the pipeline coordinator (parallel_compute.rs,        *)
(* thread_manager.rs).                                                     *)
(*                                                                         *)
(* The file is a sequence of bytes (0..255).  Offsets are 0-based as in    *)
(* the source; Slice(f, pos, n) is the n bytes at offset pos.              *)
(***************************************************************************)
EXTENDS Integers, Sequences, FiniteSets, TLC

(***************************************************************************)
(* Bounds of the model                                                     *)
(***************************************************************************)
\* total number of append_eigenvalues calls in one behaviour
MaxAppends == 2
\* total number of with_expected_size calls in one behaviour
MaxOpens == 2
\* largest value count offered to append_eigenvalues
MaxValues == 2
\* decoded integers at or above Huge are all represented by Huge
Huge == 1073741824
\* capacity of the writer's BufWriter (2 MiB in config.rs), scaled down so
\* that the buffer fills, and spills to the file, in the middle of a record
WRITE_BUFFER_CAPACITY == 10
\* records between two periodic flushes (10^4 in config.rs), scaled down
FLUSH_INTERVAL == 2
\* BATCH_SIZE of config.rs (10^4 there), scaled so that a run has several
\* chunks
BATCH_SIZE == 2
\* calls of run_model_simulation in one behaviour
MaxRuns == 2
MaxRestarts == 3
\* the largest num_runs a call is given
MaxNumRuns == 3
\* the longest completed_seeds slice get_remaining_seeds is given on its own
MaxCompleted == 3
MaxBuf == 6
MaxTrail == 1
MaxRunCount == 130
MaxPerRun == 2
MaxOffset == 8

(***************************************************************************)
(* file_format.rs                                                          *)
(***************************************************************************)
\* b"EIGENVALS_V6"
MAGIC_HEADER == <<69, 73, 71, 69, 78, 86, 65, 76, 83, 95, 86, 54>>
\* b"EOF_MARK"
EOF_MARKER == <<69, 79, 70, 95, 77, 65, 82, 75>>
\* magic(12) + model(1) + dim(1) + steps(4)
HEADER_LEN == 18
\* eof_marker(8) + count(8) + eigenvalues_per_run(1)
FOOTER_LEN == 17
\* u8::MAX, the largest value count of a record
U8_MAX == 255
\* the magic of the previous format revision, b"EIGENVALS_V5"
OLD_MAGIC_HEADER == <<69, 73, 71, 69, 78, 86, 65, 76, 83, 95, 86, 53>>

(***************************************************************************)
(* Integer <-> little-endian bytes (to_le_bytes / from_le_bytes)           *)
(***************************************************************************)
RECURSIVE to_le_bytes(_, _)
to_le_bytes(n, width) ==
    IF width = 0 THEN <<>>
    ELSE <<n % 256>> \o to_le_bytes(n \div 256, width - 1)

RECURSIVE from_le_bytes(_)
from_le_bytes(b) ==
    IF b = <<>> THEN 0
    ELSE LET hi == from_le_bytes(Tail(b))
         IN  IF hi >= Huge \div 256 THEN Huge ELSE Head(b) + 256 * hi

Slice(f, pos, n) == SubSeq(f, pos + 1, pos + n)

\* Option<usize>::None for eigenvalues_per_run
None == -1

(***************************************************************************)
(* reader.rs                                                               *)
(***************************************************************************)
ReadOk(data, model, dim, steps) ==
    [err |-> "", data |-> data, model |-> model, dim |-> dim, steps |-> steps]
ReadErr(e) ==
    [err |-> e, data |-> <<>>, model |-> 0, dim |-> 0, steps |-> 0]

\* read_file_metadata: <<found, total_count, eigenvalues_per_run>>
read_file_metadata(f, file_len) ==
    LET metadata_offset == file_len - 8 - 1
    IN  IF Slice(f, metadata_offset - 8, 8) # EOF_MARKER
        THEN <<FALSE, 0, 0>>
        ELSE <<TRUE,
               from_le_bytes(Slice(f, metadata_offset, 8)),
               from_le_bytes(Slice(f, metadata_offset + 8, 1))>>

\* read_with_metadata as it would be if it stopped at a record with a wrong
\* count and returned the records decoded so far
RECURSIVE read_with_metadata_loop_StopsAtBadCount(_, _, _, _, _)
read_with_metadata_loop_StopsAtBadCount(f, pos, remaining, eigenvalues_per_run, data) ==
    IF remaining = 0 THEN [err |-> "", data |-> data]
    ELSE IF pos + 5 > Len(f) THEN [err |-> "UnexpectedEof", data |-> <<>>]
    ELSE
      LET seed == from_le_bytes(Slice(f, pos, 4))
          eigenvalue_count == f[pos + 5]
      IN  IF eigenvalue_count = 0 \/ eigenvalue_count # eigenvalues_per_run
            THEN [err |-> "", data |-> data]
          ELSE IF pos + 5 + 8 * eigenvalue_count > Len(f)
            THEN [err |-> "UnexpectedEof", data |-> <<>>]
          ELSE
            LET eigenvalues ==
                  [j \in 1..eigenvalue_count |->
                      from_le_bytes(Slice(f, pos + 5 + 8 * (j - 1), 8))]
            IN  read_with_metadata_loop_StopsAtBadCount(f,
                    pos + 5 + 8 * eigenvalue_count,
                    remaining - 1, eigenvalues_per_run,
                    Append(data, <<seed, eigenvalues>>))

\* read_with_metadata: the loop `for _ in 0..total_count`, from offset pos
RECURSIVE read_with_metadata_loop(_, _, _, _, _)
read_with_metadata_loop(f, pos, remaining, eigenvalues_per_run, data) ==
    IF remaining = 0 THEN [err |-> "", data |-> data]
    ELSE IF pos + 4 > Len(f) THEN [err |-> "UnexpectedEof", data |-> <<>>]
    ELSE IF pos + 5 > Len(f) THEN [err |-> "UnexpectedEof", data |-> <<>>]
    ELSE
      LET seed == from_le_bytes(Slice(f, pos, 4))
          eigenvalue_count == f[pos + 5]
      IN  IF eigenvalue_count = 0
            THEN [err |-> "InvalidData: zero count", data |-> <<>>]
          ELSE IF eigenvalue_count # eigenvalues_per_run
            THEN [err |-> "InvalidData: count mismatch", data |-> <<>>]
          ELSE IF pos + 5 + 8 * eigenvalue_count > Len(f)
            THEN [err |-> "UnexpectedEof", data |-> <<>>]
          ELSE
            LET eigenvalues ==
                  [j \in 1..eigenvalue_count |->
                      from_le_bytes(Slice(f, pos + 5 + 8 * (j - 1), 8))]
            IN  read_with_metadata_loop(f, pos + 5 + 8 * eigenvalue_count,
                    remaining - 1, eigenvalues_per_run,
                    Append(data, <<seed, eigenvalues>>))

read_with_metadata(f, total_count, eigenvalues_per_run) ==
    read_with_metadata_loop(f, HEADER_LEN, total_count, eigenvalues_per_run, <<>>)

\* scan_read_data: one turn of `loop` per call, from offset pos.
\* A read_exact that fails leaves the reader at the end of the file.
RECURSIVE scan_read_data_loop(_, _, _)
scan_read_data_loop(f, pos, data) ==
    IF pos + 4 > Len(f) THEN data
    ELSE
      LET seed_buf == Slice(f, pos, 4)
          p1 == pos + 4
          \* the "EOF_" check: <<break, position afterwards>>
          eofchk ==
            IF seed_buf = SubSeq(EOF_MARKER, 1, 4)
            THEN IF p1 + 4 <= Len(f)
                 THEN IF Slice(f, p1, 4) = SubSeq(EOF_MARKER, 5, 8)
                      THEN <<TRUE, p1 + 4>>
                      ELSE <<FALSE, p1 + 4 - 4>>
                 ELSE <<FALSE, Len(f) - 4>>
            ELSE <<FALSE, p1>>
          p2 == eofchk[2]
          \* the all-zero check: <<break, position afterwards>>
          zerochk ==
            IF seed_buf = <<0, 0, 0, 0>>
            THEN IF p2 + 1 <= Len(f)
                 THEN IF f[p2 + 1] = 0
                      THEN <<TRUE, p2 + 1>>
                      ELSE <<FALSE, p2 + 1 - 1>>
                 ELSE <<FALSE, Len(f) - 1>>
            ELSE <<FALSE, p2>>
          p3 == zerochk[2]
      IN  IF eofchk[1] THEN data
          ELSE IF zerochk[1] THEN data
          ELSE IF p3 + 1 > Len(f) THEN data
          ELSE
            LET seed == from_le_bytes(seed_buf)
                eigenvalue_count == f[p3 + 1]
                p4 == p3 + 1
            IN  IF eigenvalue_count = 0 THEN data
                ELSE IF p4 + 8 * eigenvalue_count > Len(f) THEN data
                ELSE
                  LET eigenvalues ==
                        [j \in 1..eigenvalue_count |->
                            from_le_bytes(Slice(f, p4 + 8 * (j - 1), 8))]
                  IN  scan_read_data_loop(f, p4 + 8 * eigenvalue_count,
                          Append(data, <<seed, eigenvalues>>))

scan_read_data(f) == scan_read_data_loop(f, HEADER_LEN, <<>>)

\* read_append_file as it would be if it scanned the files too short to
\* hold a footer
read_append_file_ScansShortFile(exists, f) ==
    IF ~exists THEN ReadErr("NotFound")
    ELSE IF Len(f) < 12 THEN ReadErr("UnexpectedEof")
    ELSE IF Slice(f, 0, 12) # MAGIC_HEADER
      THEN ReadErr("File format error: magic header mismatch")
    ELSE IF Len(f) < HEADER_LEN THEN ReadErr("UnexpectedEof")
    ELSE
      LET model == from_le_bytes(Slice(f, 12, 1))
          dim   == from_le_bytes(Slice(f, 13, 1))
          steps == from_le_bytes(Slice(f, 14, 4))
          file_len == Len(f)
      IN  IF file_len < 18 + 8 + 8 + 1
          THEN ReadOk(scan_read_data(f), model, dim, steps)
          ELSE
            LET metadata == read_file_metadata(f, file_len)
                res == IF metadata[1]
                       THEN read_with_metadata(f, metadata[2], metadata[3])
                       ELSE [err |-> "", data |-> scan_read_data(f)]
            IN  IF res.err # "" THEN ReadErr(res.err)
                ELSE ReadOk(res.data, model, dim, steps)

\* read_append_file on a path that exists or not, with content f
read_append_file(exists, f) ==
    IF ~exists THEN ReadErr("NotFound")
    ELSE IF Len(f) < 12 THEN ReadErr("UnexpectedEof")
    ELSE IF Slice(f, 0, 12) # MAGIC_HEADER
      THEN ReadErr("File format error: magic header mismatch")
    ELSE IF Len(f) < HEADER_LEN THEN ReadErr("UnexpectedEof")
    ELSE
      LET model == from_le_bytes(Slice(f, 12, 1))
          dim   == from_le_bytes(Slice(f, 13, 1))
          steps == from_le_bytes(Slice(f, 14, 4))
          file_len == Len(f)
      IN  IF file_len < 18 + 8 + 8 + 1
          THEN ReadOk(<<>>, model, dim, steps)
          ELSE
            LET metadata == read_file_metadata(f, file_len)
                res == IF metadata[1]
                       THEN read_with_metadata(f, metadata[2], metadata[3])
                       ELSE [err |-> "", data |-> scan_read_data(f)]
            IN  IF res.err # "" THEN ReadErr(res.err)
                ELSE ReadOk(res.data, model, dim, steps)

(***************************************************************************)
(* writer.rs                                                               *)
(***************************************************************************)
\* BufWriter::write_all of one slice: the buffer is written out to the
\* file first when the slice does not fit in the spare capacity, and a
\* slice at least as large as the buffer bypasses it
BufWriteAll(st, bytes) ==
    LET spare == WRITE_BUFFER_CAPACITY - Len(st.buf)
    IN  IF Len(bytes) < spare
        THEN [file |-> st.file, buf |-> st.buf \o bytes]
        ELSE LET flushed == IF Len(bytes) > spare
                            THEN [file |-> st.file \o st.buf, buf |-> <<>>]
                            ELSE st
             IN  IF Len(bytes) >= WRITE_BUFFER_CAPACITY
                 THEN [file |-> flushed.file \o bytes, buf |-> flushed.buf]
                 ELSE [file |-> flushed.file, buf |-> flushed.buf \o bytes]

\* BufWriter::flush
BufFlush(st) == [file |-> st.file \o st.buf, buf |-> <<>>]

\* consecutive write_all calls, one per element of slices
RECURSIVE BufWriteSlices(_, _)
BufWriteSlices(st, slices) ==
    IF slices = <<>> THEN st
    ELSE IF Len(slices) = 1 THEN BufWriteAll(st, slices[1])
    ELSE LET half == Len(slices) \div 2
             left == BufWriteSlices(st, SubSeq(slices, 1, half))
         IN  \* the test, always true, has the first half evaluated before
             \* the second half is
             IF Len(left.buf) <= WRITE_BUFFER_CAPACITY
             THEN BufWriteSlices(left, SubSeq(slices, half + 1, Len(slices)))
             ELSE left

\* the fields of struct AppendOnlyWriter (writer: the BufWriter's buffer)
AppendOnlyWriter(buf, written_count, eigenvalues_per_run, model, dim, steps) ==
    [buf |-> buf, written_count |-> written_count,
     eigenvalues_per_run |-> eigenvalues_per_run,
     model |-> model, dim |-> dim, steps |-> steps]

\* no writer exists
NoWriter == AppendOnlyWriter(<<>>, 0, None, 0, 0, 0)

\* the 18 header bytes written for a new file
HeaderSlices(model, dim, steps) ==
    <<MAGIC_HEADER, to_le_bytes(model, 1), to_le_bytes(dim, 1), to_le_bytes(steps, 4)>>

\* create(true).truncate(true), write the header, flush
CreateWithHeader(model, dim, steps) ==
    BufFlush(BufWriteSlices([file |-> <<>>, buf |-> <<>>],
                            HeaderSlices(model, dim, steps)))

\* remove_eof_marker: the file content afterwards
remove_eof_marker(f) ==
    LET file_len == Len(f)
    IN  IF file_len >= 18 + 17
        THEN IF Slice(f, file_len - 17, 8) = EOF_MARKER
             THEN SubSeq(f, 1, file_len - 17)
             ELSE f
        ELSE f

OpenResult(err, exists, f, wr) ==
    [err |-> err, exists |-> exists, file |-> f, w |-> wr]

\* with_expected_size as it would be if the dimension were compared before
\* the model
with_expected_size_DimFirst(exists, f, model, dim, steps) ==
    LET is_new_file == ~exists
    IN
    IF is_new_file
    THEN OpenResult("", TRUE, CreateWithHeader(model, dim, steps).file,
                    AppendOnlyWriter(<<>>, 0, None, model, dim, steps))
    ELSE
      LET r == read_append_file(exists, f)
      IN
      IF r.err = "" /\ r.dim # dim
        THEN OpenResult("Dimension mismatch", exists, f, NoWriter)
      ELSE IF r.err = "" /\ r.model # model
        THEN OpenResult("Model mismatch", exists, f, NoWriter)
      ELSE IF r.err = "" /\ r.steps # steps
        THEN OpenResult("Steps mismatch", exists, f, NoWriter)
      ELSE IF r.err = "File format error: magic header mismatch"
        THEN \* remove_file, then create a new file
             OpenResult("", TRUE, CreateWithHeader(model, dim, steps).file,
                        AppendOnlyWriter(<<>>, 0, None, model, dim, steps))
      ELSE
        LET written_count == IF r.err = "" THEN Len(r.data) ELSE 0
            eigenvalues_per_run ==
                IF r.err = "" /\ r.data # <<>> THEN Len(r.data[1][2]) ELSE None
        IN  OpenResult("", TRUE, remove_eof_marker(f),
                AppendOnlyWriter(<<>>, written_count, eigenvalues_per_run,
                                 model, dim, steps))

\* AppendOnlyWriter::with_expected_size on a path that exists or not
\* with_expected_size as it would be if a magic mismatch were handled like
\* the other read errors: the file is kept and appended to
with_expected_size_KeepsIncompatible(exists, f, model, dim, steps) ==
    LET is_new_file == ~exists
    IN
    IF is_new_file
    THEN OpenResult("", TRUE, CreateWithHeader(model, dim, steps).file,
                    AppendOnlyWriter(<<>>, 0, None, model, dim, steps))
    ELSE
      LET r == read_append_file(exists, f)
      IN
      IF r.err = "" /\ r.model # model
        THEN OpenResult("Model mismatch", exists, f, NoWriter)
      ELSE IF r.err = "" /\ r.dim # dim
        THEN OpenResult("Dimension mismatch", exists, f, NoWriter)
      ELSE IF r.err = "" /\ r.steps # steps
        THEN OpenResult("Steps mismatch", exists, f, NoWriter)
      ELSE
        LET written_count == IF r.err = "" THEN Len(r.data) ELSE 0
            eigenvalues_per_run ==
                IF r.err = "" /\ r.data # <<>> THEN Len(r.data[1][2]) ELSE None
        IN  OpenResult("", TRUE, remove_eof_marker(f),
                AppendOnlyWriter(<<>>, written_count, eigenvalues_per_run,
                                 model, dim, steps))

\* AppendOnlyWriter::with_expected_size(path, _, model, dim, steps, _): what
\* it leaves on disk and the writer it returns
with_expected_size(exists, f, model, dim, steps) ==
    LET is_new_file == ~exists
    IN
    IF is_new_file
    THEN OpenResult("", TRUE, CreateWithHeader(model, dim, steps).file,
                    AppendOnlyWriter(<<>>, 0, None, model, dim, steps))
    ELSE
      LET r == read_append_file(exists, f)
      IN
      IF r.err = "" /\ r.model # model
        THEN OpenResult("Model mismatch", exists, f, NoWriter)
      ELSE IF r.err = "" /\ r.dim # dim
        THEN OpenResult("Dimension mismatch", exists, f, NoWriter)
      ELSE IF r.err = "" /\ r.steps # steps
        THEN OpenResult("Steps mismatch", exists, f, NoWriter)
      ELSE IF r.err = "File format error: magic header mismatch"
        THEN \* remove_file, then create a new file
             OpenResult("", TRUE, CreateWithHeader(model, dim, steps).file,
                        AppendOnlyWriter(<<>>, 0, None, model, dim, steps))
      ELSE
        LET written_count == IF r.err = "" THEN Len(r.data) ELSE 0
            eigenvalues_per_run ==
                IF r.err = "" /\ r.data # <<>> THEN Len(r.data[1][2]) ELSE None
        IN  OpenResult("", TRUE, remove_eof_marker(f),
                AppendOnlyWriter(<<>>, written_count, eigenvalues_per_run,
                                 model, dim, steps))

\* the file-system calls of remove_eof_marker, in program order
remove_eof_marker_calls(f) ==
    <<"open_read_write">>
      \o (IF remove_eof_marker(f) # f THEN <<"set_len">> ELSE <<>>)

\* what with_expected_size prints that reports a warning, and the
\* file-system calls it makes, in program order
with_expected_size_calls(exists, f, model, dim, steps, quiet) ==
    IF ~exists THEN <<"create">>
    ELSE
      LET r == read_append_file(exists, f)
      IN
      <<"read_append_file">> \o
      (IF r.err = "" /\ (r.model # model \/ r.dim # dim \/ r.steps # steps)
         THEN <<>>
       ELSE IF r.err = "File format error: magic header mismatch"
         THEN (IF ~quiet
               THEN <<"WARNING: Incompatible file format detected, recreating file...">>
               ELSE <<>>)
              \o <<"remove_file", "create">>
       ELSE (IF r.err # "" /\ ~quiet
             THEN <<"WARNING: Could not read existing file, will attempt to append...">>
             ELSE <<>>)
            \o remove_eof_marker_calls(f) \o <<"open_append">>)

\* the write_all calls of one record: seed, count, then each value
RecordSlices(seed, eigenvalues) ==
    <<to_le_bytes(seed, 4), to_le_bytes(Len(eigenvalues) % 256, 1)>>
    \o [j \in 1..Len(eigenvalues) |-> to_le_bytes(eigenvalues[j], 8)]

WriteResult(err, f, wr) == [err |-> err, file |-> f, w |-> wr]

\* append_eigenvalues as it would be if it wrote the record before it
\* compared the length with the established count
append_eigenvalues_WriteFirst(wr, f, seed, eigenvalues) ==
    IF Len(eigenvalues) > 255
    THEN WriteResult("Too many eigenvalues", f, wr)
    ELSE
      LET per_run == IF wr.eigenvalues_per_run = None
                     THEN Len(eigenvalues) ELSE wr.eigenvalues_per_run
          st == BufWriteSlices([file |-> f, buf |-> wr.buf],
                               RecordSlices(seed, eigenvalues))
          w1 == [wr EXCEPT !.eigenvalues_per_run = per_run, !.buf = st.buf]
      IN  IF Len(eigenvalues) # per_run
          THEN WriteResult("Eigenvalue count mismatch", st.file, w1)
          ELSE
            LET count == w1.written_count + 1
                st2 == IF count % FLUSH_INTERVAL = 0 THEN BufFlush(st) ELSE st
            IN  WriteResult("", st2.file,
                    [w1 EXCEPT !.buf = st2.buf, !.written_count = count])

\* AppendOnlyWriter::append_eigenvalues
\* append_eigenvalues as it would be if it flushed after every record
append_eigenvalues_FlushesAlways(wr, f, seed, eigenvalues) ==
    LET per_run == IF wr.eigenvalues_per_run = None
                   THEN Len(eigenvalues) ELSE wr.eigenvalues_per_run
        w1 == [wr EXCEPT !.eigenvalues_per_run = per_run]
    IN  IF Len(eigenvalues) # per_run
        THEN WriteResult("Eigenvalue count mismatch", f, w1)
        ELSE
          LET st == BufWriteSlices([file |-> f, buf |-> w1.buf],
                                   RecordSlices(seed, eigenvalues))
              count == w1.written_count + 1
              st2 == BufFlush(st)
          IN  WriteResult("", st2.file,
                  [w1 EXCEPT !.buf = st2.buf, !.written_count = count])

append_eigenvalues(wr, f, seed, eigenvalues) ==
    IF Len(eigenvalues) > 255
    THEN WriteResult("Too many eigenvalues", f, wr)
    ELSE
      LET per_run == IF wr.eigenvalues_per_run = None
                     THEN Len(eigenvalues) ELSE wr.eigenvalues_per_run
          w1 == [wr EXCEPT !.eigenvalues_per_run = per_run]
      IN  IF Len(eigenvalues) # per_run
          THEN WriteResult("Eigenvalue count mismatch", f, w1)
          ELSE
            LET st == BufWriteSlices([file |-> f, buf |-> w1.buf],
                                     RecordSlices(seed, eigenvalues))
                count == w1.written_count + 1
                st2 == IF count % FLUSH_INTERVAL = 0 THEN BufFlush(st) ELSE st
            IN  WriteResult("", st2.file,
                    [w1 EXCEPT !.buf = st2.buf, !.written_count = count])

\* AppendOnlyWriter::finish
finish(wr, f) ==
    LET st0 == BufFlush([file |-> f, buf |-> wr.buf])
        st1 == BufWriteSlices(st0, <<EOF_MARKER, to_le_bytes(wr.written_count, 8)>>)
    IN  IF wr.eigenvalues_per_run # None /\ wr.eigenvalues_per_run > 255
        THEN \* the error return drops the writer, which flushes its buffer
             WriteResult("Too many eigenvalues per run", BufFlush(st1).file, NoWriter)
        ELSE
          LET per_run == IF wr.eigenvalues_per_run # None
                         THEN wr.eigenvalues_per_run ELSE 0
              st2 == BufFlush(BufWriteAll(st1, to_le_bytes(per_run, 1)))
          IN  WriteResult("", st2.file, NoWriter)

\* The records laid out back to back in f from the end of the header, as
\* append_eigenvalues writes them (seed[4] | count[1] | values[count * 8]),
\* up to the first one that is not complete: the records and the offset of
\* the end of the last complete one
RECURSIVE StoredLayoutFrom(_, _, _)
StoredLayoutFrom(f, pos, data) ==
    IF pos + 5 > Len(f) THEN [end |-> pos, data |-> data]
    ELSE LET count == f[pos + 5]
         IN  IF pos + 5 + 8 * count > Len(f) THEN [end |-> pos, data |-> data]
             ELSE StoredLayoutFrom(f, pos + 5 + 8 * count,
                    Append(data,
                      <<from_le_bytes(Slice(f, pos, 4)),
                        [j \in 1..count |->
                            from_le_bytes(Slice(f, pos + 5 + 8 * (j - 1), 8))]>>))

StoredLayout(f) == StoredLayoutFrom(f, HEADER_LEN, <<>>)

\* the 18 bytes of a header
HeaderBytes(model, dim, steps) ==
    MAGIC_HEADER \o to_le_bytes(model, 1) \o to_le_bytes(dim, 1)
      \o to_le_bytes(steps, 4)

(***************************************************************************)
(* progress.rs                                                             *)
(***************************************************************************)
ProgressResult(err, completed_runs, completed_seeds) ==
    [err |-> err, completed_runs |-> completed_runs,
     completed_seeds |-> completed_seeds]

\* check_append_progress as it would be if a failure of the reader were
\* passed on to the caller
check_append_progress_PassesReadError(exists, f, expected_model, expected_dim, expected_steps) ==
    IF ~exists THEN ProgressResult("", 0, <<>>)
    ELSE
      LET r == read_append_file(exists, f)
      IN  IF r.err # "" THEN ProgressResult(r.err, 0, <<>>)
          ELSE IF r.model # expected_model
            THEN ProgressResult("Model mismatch", 0, <<>>)
          ELSE IF r.dim # expected_dim
            THEN ProgressResult("Dimension mismatch", 0, <<>>)
          ELSE IF r.steps # expected_steps
            THEN ProgressResult("Steps mismatch", 0, <<>>)
          ELSE ProgressResult("", Len(r.data),
                              [i \in 1..Len(r.data) |-> r.data[i][1]])

\* check_append_progress(path, expected_model, expected_dim, expected_steps)
check_append_progress(exists, f, expected_model, expected_dim, expected_steps) ==
    IF ~exists THEN ProgressResult("", 0, <<>>)
    ELSE
      LET r == read_append_file(exists, f)
      IN  IF r.err # "" THEN ProgressResult("", 0, <<>>)
          ELSE IF r.model # expected_model
            THEN ProgressResult("Model mismatch", 0, <<>>)
          ELSE IF r.dim # expected_dim
            THEN ProgressResult("Dimension mismatch", 0, <<>>)
          ELSE IF r.steps # expected_steps
            THEN ProgressResult("Steps mismatch", 0, <<>>)
          ELSE ProgressResult("", Len(r.data),
                              [i \in 1..Len(r.data) |-> r.data[i][1]])

(***************************************************************************)
(* Inputs offered to the operations                                        *)
(***************************************************************************)
\* the (model, dim, steps) triples callers ask for; among them are pairs
\* differing in the model only, in the steps only, in dim and steps, and in
\* all three fields
Configs == {<<0, 1, 1>>, <<1, 1, 1>>, <<0, 1, 258>>, <<1, 2, 258>>}
\* identifiers offered to append_eigenvalues
Seeds == {0, 1}

\* the j-th value stored for a seed: an f64 given by its bit pattern
EigenValue(seed, j) == 4 * seed + (j - 1)
ValuesFor(seed, n) == [j \in 1..n |-> EigenValue(seed, j)]

\* a file left behind by the previous format revision
OldFormatFile ==
    OLD_MAGIC_HEADER \o <<0, 1>> \o to_le_bytes(1, 4)
      \o to_le_bytes(1, 4) \o <<1>> \o to_le_bytes(EigenValue(1, 1), 8)

(***************************************************************************)
(* State                                                                   *)
(***************************************************************************)
VARIABLES
    file_exists,   \* the path exists
    file,          \* the bytes of the file on disk
    w_open,        \* an AppendOnlyWriter is alive
    w,             \* its fields
    last,          \* the last operation, its arguments and its outcome
    hist,          \* history: what the current writer was given
    pc,            \* run_model_simulation: where the coordinator stands
    run,           \* its arguments and locals, and how the last call ended
    chan,          \* the (seed, eigenvalues) messages sent and not yet received
    wt,            \* the writer thread: where it stands
    out            \* what the latest logged call printed that reports a
                   \* warning, a failure or a success, and the file-system
                   \* calls it made, in program order, each with its task

\* what the calls of the writer API other than the opening leave alone
pvars == <<pc, run, chan, wt, out>>
vars == <<file_exists, file, w_open, w, last, hist, pc, run, chan, wt, out>>

\* the entries of out made by one task
Logged(by, lines) == [i \in 1..Len(lines) |-> [by |-> by, ev |-> lines[i]]]

Op(name, err, model, dim, steps, seed, values) ==
    [op |-> name, err |-> err, model |-> model, dim |-> dim, steps |-> steps,
     seed |-> seed, values |-> values, count |-> 0, seeds |-> <<>>]

NoOp == Op("none", "", 0, 0, 0, 0, <<>>)

Hist(opens, appends, fresh, accepted, lifecycle) ==
    [opens |-> opens, appends |-> appends, fresh |-> fresh,
     accepted |-> accepted, lifecycle |-> lifecycle]

InitFiles == {<<FALSE, <<>>>>, <<TRUE, OldFormatFile>>}

Run(runs, model, dim, steps, num_runs, quiet, remaining_seeds, sent, start_data, start_err, restarts, outcome) ==
    [runs |-> runs, model |-> model, dim |-> dim, steps |-> steps,
     num_runs |-> num_runs, quiet |-> quiet,
     remaining_seeds |-> remaining_seeds, sent |-> sent,
     start_data |-> start_data, start_err |-> start_err,
     restarts |-> restarts, outcome |-> outcome]

NoRun == Run(0, 0, 0, 0, 0, TRUE, <<>>, <<>>, <<>>, "", 0, "none")

\* no call of run_model_simulation has been made
PipelineIdle ==
    /\ pc = "idle"
    /\ run = NoRun
    /\ chan = <<>>
    /\ wt = "none"

Init ==
    /\ \E f0 \in InitFiles : file_exists = f0[1] /\ file = f0[2]
    /\ w_open = FALSE
    /\ w = NoWriter
    /\ last = NoOp
    /\ hist = Hist(0, 0, FALSE, <<>>, "none")
    /\ PipelineIdle
    /\ out = <<>>

(***************************************************************************)
(* Operations of the writer API                                            *)
(***************************************************************************)
\* AppendOnlyWriter::with_expected_size(path, _, model, dim, steps, _): what
\* it does to the file and the writer
OpenStep(model, dim, steps) ==
    /\ ~w_open
    /\ hist.opens < MaxOpens
    /\ \E r \in {with_expected_size(file_exists, file, model, dim, steps)} :
           /\ file_exists' = r.exists
           /\ file' = r.file
           /\ w_open' = (r.err = "")
           /\ w' = r.w
           /\ last' = Op("open", r.err, model, dim, steps, 0, <<>>)
           /\ hist' = IF r.err = ""
                      THEN Hist(hist.opens + 1, hist.appends, ~file_exists,
                                <<>>, "open")
                      ELSE [hist EXCEPT !.opens = @ + 1]

\* the call with its output left unobserved
Open(model, dim, steps) ==
    /\ OpenStep(model, dim, steps)
    /\ UNCHANGED pvars

\* the call with its output observed, for either value of quiet
OpenAs(model, dim, steps, quiet) ==
    /\ OpenStep(model, dim, steps)
    /\ out' = Logged("caller", with_expected_size_calls(file_exists, file, model,
                                                        dim, steps, quiet))
    /\ UNCHANGED <<pc, run, chan, wt>>

\* writer.append_eigenvalues(seed, eigenvalues)
AppendEigenvalues(seed, eigenvalues) ==
    /\ w_open
    /\ hist.appends < MaxAppends
    /\ \E r \in {append_eigenvalues(w, file, seed, eigenvalues)} :
           /\ file' = r.file
           /\ w' = r.w
           /\ last' = Op("append", r.err, w.model, w.dim, w.steps, seed,
                         eigenvalues)
           /\ hist' = [hist EXCEPT
                         !.appends = @ + 1,
                         !.accepted = IF r.err = ""
                                      THEN Append(@, <<seed, eigenvalues>>)
                                      ELSE @]
    /\ UNCHANGED <<file_exists, w_open>>
    /\ UNCHANGED pvars

\* writer.finish()
Finish ==
    /\ w_open
    /\ \E r \in {finish(w, file)} :
           /\ file' = r.file
           /\ w' = r.w
           /\ last' = Op("finish", r.err, w.model, w.dim, w.steps, 0, <<>>)
    /\ w_open' = FALSE
    /\ hist' = [hist EXCEPT !.lifecycle = "finished"]
    /\ UNCHANGED file_exists
    /\ UNCHANGED pvars

\* the writer goes out of scope without finish: BufWriter's drop flushes
DropWriter ==
    /\ w_open
    /\ file' = BufFlush([file |-> file, buf |-> w.buf]).file
    /\ w' = NoWriter
    /\ w_open' = FALSE
    /\ last' = Op("drop", "", w.model, w.dim, w.steps, 0, <<>>)
    /\ hist' = [hist EXCEPT !.lifecycle = "dropped"]
    /\ UNCHANGED file_exists
    /\ UNCHANGED pvars

\* the process dies: what is still in the BufWriter never reaches the file
Crash ==
    /\ w_open
    /\ w' = NoWriter
    /\ w_open' = FALSE
    /\ last' = Op("crash", "", w.model, w.dim, w.steps, 0, <<>>)
    /\ hist' = [hist EXCEPT !.lifecycle = "crashed"]
    /\ UNCHANGED <<file_exists, file>>
    /\ UNCHANGED pvars

\* the process dies inside with_expected_size on a nonexistent path, after
\* OpenOptions::open has created the file and before the header is flushed
CrashInCreate ==
    /\ ~w_open
    /\ ~file_exists
    /\ hist.opens < MaxOpens
    /\ file_exists' = TRUE
    /\ file' = <<>>
    /\ last' = Op("crash_in_create", "", 0, 0, 0, 0, <<>>)
    /\ hist' = [hist EXCEPT !.opens = @ + 1, !.lifecycle = "crashed", !.fresh = FALSE,
                            !.accepted = <<>>]
    /\ UNCHANGED <<w_open, w>>
    /\ UNCHANGED pvars

\* check_append_progress(path, model, dim, steps), called with no writer alive
CheckProgress(model, dim, steps) ==
    /\ ~w_open
    /\ \E r \in {check_append_progress(file_exists, file, model, dim, steps)} :
           last' = [Op("check_progress", r.err, model, dim, steps, 0, <<>>)
                      EXCEPT !.count = r.completed_runs,
                             !.seeds = r.completed_seeds]
    /\ UNCHANGED <<file_exists, file, w_open, w, hist>>
    /\ UNCHANGED pvars

\* The writer API used as the pipeline uses it: every record has at least
\* one value.
Next ==
    \/ \E c \in Configs : Open(c[1], c[2], c[3])
    \/ \E c \in Configs : CheckProgress(c[1], c[2], c[3])
    \/ \E seed \in Seeds, n \in 1..MaxValues :
          AppendEigenvalues(seed, ValuesFor(seed, n))
    \/ Finish
    \/ DropWriter
    \/ Crash

Spec == Init /\ [][Next]_vars

\* The writer API with every slice append_eigenvalues accepts, the empty
\* one included.
NextAnyCount ==
    \/ \E c \in Configs : Open(c[1], c[2], c[3])
    \/ \E seed \in Seeds, n \in 0..MaxValues :
          AppendEigenvalues(seed, ValuesFor(seed, n))
    \/ Finish
    \/ DropWriter
    \/ Crash

SpecAnyCount == Init /\ [][NextAnyCount]_vars

\* The writer API where the process may also die while a file is created.
NextCreateCrash ==
    \/ \E c \in Configs : Open(c[1], c[2], c[3])
    \/ \E seed \in Seeds, n \in 1..MaxValues :
          AppendEigenvalues(seed, ValuesFor(seed, n))
    \/ Finish
    \/ DropWriter
    \/ Crash
    \/ CrashInCreate

SpecCreateCrash == Init /\ [][NextCreateCrash]_vars

(***************************************************************************)
(* The pipeline: run_model_simulation, its workers and its writer thread   *)
(***************************************************************************)
\* calculate_eigenvalues(dim, steps, seed, model): a pure function of its
\* arguments; the F matrix has dim + 1 rows for models 1 and 3 and dim rows
\* otherwise, and there is one eigenvalue per row
calculate_eigenvalues(dim, steps, seed, model) ==
    ValuesFor(seed, IF model \in {1, 3} THEN dim + 1 ELSE dim)

\* get_remaining_seeds as it would be if it scheduled every seed of the run
get_remaining_seeds_NoFilter(total_runs, completed_seeds) ==
    [seed \in 1..total_runs |-> seed]

\* get_remaining_seeds as it would be if it took the completed seeds to be
\* the first Len(completed_seeds) seeds of the run
get_remaining_seeds_ByCount(total_runs, completed_seeds) ==
    [i \in 1..(IF total_runs > Len(completed_seeds)
                THEN total_runs - Len(completed_seeds) ELSE 0)
        |-> Len(completed_seeds) + i]

\* get_remaining_seeds(total_runs, completed_seeds); the cast of total_runs
\* to u32 is the identity on the totals of the model, all below 2^32
get_remaining_seeds(total_runs, completed_seeds) ==
    LET completed_set == {completed_seeds[i] : i \in 1..Len(completed_seeds)}
    IN  SelectSeq([seed \in 1..total_runs |-> seed],
                  LAMBDA seed : seed \notin completed_set)

\* error_msg.contains("mismatch")
ContainsMismatch(error_msg) ==
    error_msg \in {"Model mismatch", "Dimension mismatch", "Steps mismatch"}

\* the seeds of chunk chunk_idx in calculate_eigenvalues_parallel
ChunkSeeds_WholeSlice(seeds, chunk_idx) ==
    {seeds[i] : i \in 1..Len(seeds)}

ChunkSeeds(seeds, chunk_idx) ==
    LET chunk_start == chunk_idx * BATCH_SIZE
        chunk_end == IF (chunk_idx + 1) * BATCH_SIZE < Len(seeds)
                     THEN (chunk_idx + 1) * BATCH_SIZE ELSE Len(seeds)
    IN  {seeds[i] : i \in (chunk_start + 1)..chunk_end}

\* the seeds sent so far, as a set
SentSet == {run.sent[i] : i \in 1..Len(run.sent)}

\* the receiving end of the channel is alive
ReceiverAlive == wt \in {"spawned", "receiving"}

\* rewrite_append_file(filename, data, model, dim, steps) of the test
\* helpers: the file holding exactly data, written and finished by a writer
RECURSIVE AppendAll(_, _, _)
AppendAll(wr, f, data) ==
    IF data = <<>> THEN WriteResult("", f, wr)
    ELSE LET r == append_eigenvalues(wr, f, data[1][1], data[1][2])
         IN  AppendAll(r.w, r.file, Tail(data))

rewrite_append_file(data, model, dim, steps) ==
    LET o == with_expected_size(FALSE, <<>>, model, dim, steps)
        a == AppendAll(o.w, o.file, data)
    IN  finish(a.w, a.file).file

\* the bytes of records laid out back to back
RECURSIVE RecordsBytes(_)
RecordsBytes(data) ==
    IF data = <<>> THEN <<>>
    ELSE to_le_bytes(data[1][1], 4) \o <<Len(data[1][2])>>
           \o [k \in 1..(8 * Len(data[1][2])) |->
                 to_le_bytes(data[1][2][((k - 1) \div 8) + 1], 8)[((k - 1) % 8) + 1]]
           \o RecordsBytes(Tail(data))

\* the file rewrite_append_file leaves: header, the records of data, footer
RewrittenFile(data, model, dim, steps) ==
    HeaderBytes(model, dim, steps) \o RecordsBytes(data)
      \o EOF_MARKER \o to_le_bytes(Len(data), 8)
      \o <<IF data = <<>> THEN 0 ELSE Len(data[1][2])>>

\* the configurations the pipeline is run with: one value per record, and
\* two values per record under another model
PipelineConfigs == {<<0, 1, 1>>, <<1, 1, 1>>}

\* what run_model_simulation logs up to its return or to the spawn of the
\* writer thread
run_model_simulation_calls(exists, removed, outcome, completed_runs, num_runs, quiet) ==
    (IF exists THEN <<"read_append_file">> ELSE <<>>)
      \o (IF removed
          THEN (IF ~quiet
                THEN <<"WARNING: Existing file has incompatible parameters:">>
                ELSE <<>>) \o <<"remove_file">>
          ELSE <<>>)
      \o (IF outcome = "panic" THEN <<"panic: Failed to check progress">>
          ELSE IF outcome = "skipped" /\ ~quiet
            THEN IF completed_runs >= num_runs
                 THEN <<"SUCCESS: calculation for this model already completed, skipping">>
                 ELSE <<"SUCCESS: calculation for this model already completed">>
          ELSE <<>>)

\* run_model_simulation(dim, steps, num_runs, _, model, quiet) from its entry
\* to the return, or to the spawn of the writer thread; a mismatch reported
\* by check_append_progress removes the file and makes the call again
StartRun(model, dim, steps, num_runs, quiet) ==
    /\ pc = "idle"
    /\ ~w_open
    /\ run.runs < MaxRuns
    /\ \E first \in {check_append_progress(file_exists, file, model, dim, steps)} :
       \E removed \in {ContainsMismatch(first.err)} :
       \E exists2 \in {file_exists /\ ~removed} :
       \E file2 \in {IF removed THEN <<>> ELSE file} :
       \E p \in {IF removed
                 THEN check_append_progress(exists2, file2, model, dim, steps)
                 ELSE first} :
       \E remaining_seeds \in {get_remaining_seeds(num_runs, p.completed_seeds)} :
       \E start \in {read_append_file(exists2, file2)} :
       \E outcome \in {IF p.err # "" THEN "panic"
                       ELSE IF p.completed_runs >= num_runs \/ remaining_seeds = <<>>
                         THEN "skipped"
                       ELSE "running"} :
           /\ file_exists' = exists2
           /\ file' = file2
           /\ run' = Run(run.runs + 1, model, dim, steps, num_runs, quiet,
                         IF outcome = "running" THEN remaining_seeds ELSE <<>>,
                         <<>>,
                         IF start.err = "" THEN start.data ELSE <<>>,
                         start.err,
                         IF removed THEN 1 ELSE 0,
                         outcome)
           /\ pc' = IF outcome = "running" THEN "computing" ELSE "idle"
           /\ wt' = IF outcome = "running" THEN "spawned" ELSE "none"
           /\ chan' = <<>>
           /\ out' = Logged("coordinator",
                            run_model_simulation_calls(file_exists, removed, outcome,
                                                       p.completed_runs, num_runs,
                                                       quiet))
    /\ UNCHANGED <<w_open, w, last, hist>>

\* the writer thread opens its writer
WriterThreadOpen ==
    /\ wt = "spawned"
    /\ \E r \in {with_expected_size(file_exists, file, run.model, run.dim, run.steps)} :
           /\ file_exists' = r.exists
           /\ file' = r.file
           /\ w_open' = (r.err = "")
           /\ w' = r.w
           /\ wt' = IF r.err = "" THEN "receiving" ELSE "err"
           /\ chan' = IF r.err = "" THEN chan ELSE <<>>
    /\ out' = Logged("writer", with_expected_size_calls(file_exists, file, run.model,
                                                        run.dim, run.steps, run.quiet))
    /\ UNCHANGED <<pc, run, last, hist>>

\* one worker of the current chunk computes a seed and sends the result; a
\* send to a receiver that is gone fails and is only logged
ComputeAndSend(seed) ==
    /\ pc = "computing"
    /\ seed \in ChunkSeeds(run.remaining_seeds, Len(run.sent) \div BATCH_SIZE)
    /\ seed \notin SentSet
    /\ chan' = IF ReceiverAlive
               THEN Append(chan, <<seed, calculate_eigenvalues(run.dim, run.steps,
                                                               seed, run.model)>>)
               ELSE chan
    /\ run' = [run EXCEPT !.sent = Append(@, seed)]
    /\ out' = IF ~ReceiverAlive /\ ~run.quiet
              THEN Logged("worker", <<"Failed to send results to writer thread">>)
              ELSE <<>>
    /\ UNCHANGED <<file_exists, file, w_open, w, last, hist, pc, wt>>

\* the coordinator as it would be if it kept the sender until the writer
\* thread had ended
ComputeReturns_AfterWriterEnds ==
    /\ pc = "computing"
    /\ Len(run.sent) = Len(run.remaining_seeds)
    /\ wt \in {"ok", "err", "panicked"}
    /\ pc' = "joining"
    /\ out' = <<>>
    /\ UNCHANGED <<file_exists, file, w_open, w, last, hist, run, chan, wt>>

\* calculate_eigenvalues_parallel returns after its last chunk, dropping the
\* sender; the coordinator goes on to join the writer thread
ComputeReturns ==
    /\ pc = "computing"
    /\ Len(run.sent) = Len(run.remaining_seeds)
    /\ pc' = "joining"
    /\ out' = <<>>
    /\ UNCHANGED <<file_exists, file, w_open, w, last, hist, run, chan, wt>>

\* the writer thread receives a message and appends it; an error of the
\* append ends the thread, dropping the writer and the receiver
WriterThreadRecv ==
    /\ wt = "receiving"
    /\ chan # <<>>
    /\ \E r \in {append_eigenvalues(w, file, Head(chan)[1], Head(chan)[2])} :
           IF r.err = ""
           THEN /\ file' = r.file
                /\ w' = r.w
                /\ chan' = Tail(chan)
                /\ UNCHANGED <<w_open, wt>>
           ELSE /\ file' = BufFlush([file |-> r.file, buf |-> r.w.buf]).file
                /\ w' = NoWriter
                /\ w_open' = FALSE
                /\ wt' = "err"
                /\ chan' = <<>>
    /\ out' = IF file' # file THEN Logged("writer", <<"write">>) ELSE <<>>
    /\ UNCHANGED <<file_exists, last, hist, pc, run>>

\* the writer thread as it would be if it finished the file as soon as it
\* found the channel empty
WriterThreadFinish_OnEmptyChannel ==
    /\ wt = "receiving"
    /\ chan = <<>>
    /\ \E r \in {finish(w, file)} :
           /\ file' = r.file
           /\ w' = r.w
           /\ wt' = IF r.err = "" THEN "ok" ELSE "err"
    /\ w_open' = FALSE
    /\ out' = IF file' # file THEN Logged("writer", <<"write">>) ELSE <<>>
    /\ UNCHANGED <<file_exists, last, hist, pc, run, chan>>

\* recv fails once the channel is empty and the sender dropped: the writer
\* thread finishes the file and returns
WriterThreadFinish ==
    /\ wt = "receiving"
    /\ chan = <<>>
    /\ pc = "joining"
    /\ \E r \in {finish(w, file)} :
           /\ file' = r.file
           /\ w' = r.w
           /\ wt' = IF r.err = "" THEN "ok" ELSE "err"
    /\ w_open' = FALSE
    /\ out' = IF file' # file THEN Logged("writer", <<"write">>) ELSE <<>>
    /\ UNCHANGED <<file_exists, last, hist, pc, run, chan>>

\* the panic! calls of the pipeline
Panics == {"panic: Failed to check progress", "panic: Writer thread error",
           "panic: Writer thread panic",
           "panic: CRITICAL ERROR: File format incompatibility detected"}

\* validate_output_file(filename, expected_count): what it logs
validate_output_file(exists, f, expected_count) ==
    LET r == read_append_file(exists, f)
    IN  <<"read_append_file">> \o
        <<IF r.err = ""
          THEN IF Len(r.data) = expected_count
               THEN "SUCCESS: append file validation successful"
               ELSE "ERROR: append file validation failed: data length mismatch"
          ELSE IF r.err = "File format error: magic header mismatch"
               THEN "panic: CRITICAL ERROR: File format incompatibility detected"
               ELSE "ERROR: failed to read append file">>

\* run_model_simulation as it would be if it went on to validate the file
\* without waiting for the writer thread
Join_WithoutWaiting ==
    /\ pc = "joining"
    /\ pc' = "idle"
    /\ \E lines \in {IF wt = "err" THEN <<"panic: Writer thread error">>
                      ELSE IF wt = "panicked" THEN <<"panic: Writer thread panic">>
                      ELSE IF ~run.quiet
                        THEN validate_output_file(file_exists, file, run.num_runs)
                      ELSE <<>>} :
           /\ out' = Logged("coordinator", lines)
           /\ run' = [run EXCEPT !.outcome =
                        IF \E i \in 1..Len(lines) : lines[i] \in Panics
                        THEN "panic" ELSE "returned"]
    /\ wt' = "none"
    /\ UNCHANGED <<file_exists, file, w_open, w, last, hist, chan>>

\* run_model_simulation as it would be if it only reported a failed writer
\* thread
Join_ReturnsAfterWriterError ==
    /\ pc = "joining"
    /\ wt \in {"ok", "err", "panicked"}
    /\ pc' = "idle"
    /\ \E lines \in {IF wt \in {"err", "panicked"}
                        THEN <<"ERROR: writer thread failed">>
                      ELSE IF ~run.quiet
                        THEN validate_output_file(file_exists, file, run.num_runs)
                      ELSE <<>>} :
           /\ out' = Logged("coordinator", lines)
           /\ run' = [run EXCEPT !.outcome =
                        IF \E i \in 1..Len(lines) : lines[i] \in Panics
                        THEN "panic" ELSE "returned"]
    /\ wt' = "none"
    /\ UNCHANGED <<file_exists, file, w_open, w, last, hist, chan>>

\* writer_handle.join(): Ok(Ok(())) lets run_model_simulation return,
\* Ok(Err(e)) and Err(_) make it panic; validate_output_file follows when
\* not quiet
Join ==
    /\ pc = "joining"
    /\ wt \in {"ok", "err", "panicked"}
    /\ pc' = "idle"
    /\ \E lines \in {IF wt = "err" THEN <<"panic: Writer thread error">>
                      ELSE IF wt = "panicked" THEN <<"panic: Writer thread panic">>
                      ELSE IF ~run.quiet
                        THEN validate_output_file(file_exists, file, run.num_runs)
                      ELSE <<>>} :
           /\ out' = Logged("coordinator", lines)
           /\ run' = [run EXCEPT !.outcome =
                        IF \E i \in 1..Len(lines) : lines[i] \in Panics
                        THEN "panic" ELSE "returned"]
    /\ wt' = "none"
    /\ UNCHANGED <<file_exists, file, w_open, w, last, hist, chan>>

\* the process dies during a run: the channel and what is still in the
\* BufWriter are lost
Kill ==
    /\ pc # "idle"
    /\ pc' = "idle"
    /\ run' = [run EXCEPT !.outcome = "killed"]
    /\ wt' = "none"
    /\ chan' = <<>>
    /\ w_open' = FALSE
    /\ w' = NoWriter
    /\ out' = <<>>
    /\ UNCHANGED <<file_exists, file, last, hist>>

\* the process dies inside finish, after its first flush and before the
\* end marker is written
KillInFinish ==
    /\ wt = "receiving"
    /\ chan = <<>>
    /\ pc = "joining"
    /\ file' = BufFlush([file |-> file, buf |-> w.buf]).file
    /\ pc' = "idle"
    /\ run' = [run EXCEPT !.outcome = "killed"]
    /\ wt' = "none"
    /\ w_open' = FALSE
    /\ w' = NoWriter
    /\ out' = IF file' # file THEN Logged("writer", <<"write">>) ELSE <<>>
    /\ UNCHANGED <<file_exists, last, hist, chan>>

\* the writer thread ends early: with_expected_size, append_eigenvalues or
\* finish returns an I/O error, or the thread panics; the receiver is
\* dropped, and so is the writer, whose buffer may or may not reach the file
WriterThreadFails(how) ==
    /\ \/ wt = "spawned"
       \/ wt = "receiving" /\ chan # <<>>
       \/ wt = "receiving" /\ chan = <<>> /\ pc = "joining"
    /\ wt' = how
    /\ chan' = <<>>
    /\ w_open' = FALSE
    /\ w' = NoWriter
    /\ \E flushed \in BOOLEAN :
          file' = IF w_open /\ flushed
                  THEN BufFlush([file |-> file, buf |-> w.buf]).file
                  ELSE file
    /\ out' = IF file' # file THEN Logged("writer", <<"write">>) ELSE <<>>
    /\ UNCHANGED <<file_exists, last, hist, pc, run>>

\* Runs of the pipeline on one path, in any of which the writer thread may
\* fail.
NextFaults ==
    \/ \E c \in PipelineConfigs, num_runs \in 1..MaxNumRuns, quiet \in BOOLEAN :
          StartRun(c[1], c[2], c[3], num_runs, quiet)
    \/ WriterThreadOpen
    \/ \E seed \in 1..MaxNumRuns : ComputeAndSend(seed)
    \/ ComputeReturns
    \/ WriterThreadRecv
    \/ WriterThreadFinish
    \/ Join
    \/ \E how \in {"err", "panicked"} : WriterThreadFails(how)

SpecFaults == Init /\ [][NextFaults]_vars

\* Runs of the pipeline on one path, any of which may be killed.
NextPipeline ==
    \/ \E c \in PipelineConfigs, num_runs \in 1..MaxNumRuns, quiet \in BOOLEAN :
          StartRun(c[1], c[2], c[3], num_runs, quiet)
    \/ WriterThreadOpen
    \/ \E seed \in 1..MaxNumRuns : ComputeAndSend(seed)
    \/ ComputeReturns
    \/ WriterThreadRecv
    \/ WriterThreadFinish
    \/ Join
    \/ Kill
    \/ KillInFinish

SpecPipeline == Init /\ [][NextPipeline]_vars

\* the sequences of len distinct seeds among ids
RECURSIVE DistinctSeqs(_, _)
DistinctSeqs(ids, len) ==
    IF len = 0 THEN {<<>>}
    ELSE UNION {{Append(q, id) : id \in ids \ {q[i] : i \in 1..Len(q)}} :
                  q \in DistinctSeqs(ids, len - 1)}

\* the records of a completed run that are left after some were removed, in
\* any order
KeptSeeds(num_runs) == UNION {DistinctSeqs(1..num_runs, len) : len \in 0..num_runs}

\* A finished run of num_runs seeds, some of whose records were then removed
\* by rewriting the file without them (remove_seed_from_file of the test
\* helpers): last holds the rewrite, its count field the num_runs of the
\* run and its seeds field the seeds that were kept.
InitResume ==
    /\ \E c \in PipelineConfigs, num_runs \in 1..MaxNumRuns :
       \E kept \in KeptSeeds(num_runs) :
          /\ file = RewrittenFile(
                       [i \in 1..Len(kept) |->
                           <<kept[i], calculate_eigenvalues(c[2], c[3], kept[i], c[1])>>],
                       c[1], c[2], c[3])
          /\ last = [Op("rewrite", "", c[1], c[2], c[3], 0, <<>>)
                       EXCEPT !.count = num_runs, !.seeds = kept]
    /\ file_exists = TRUE
    /\ w_open = FALSE
    /\ w = NoWriter
    /\ hist = Hist(0, 0, FALSE, <<>>, "none")
    /\ PipelineIdle
    /\ out = <<>>

\* run_model_simulation is called again with the parameters of the run
ResumeRun == \E quiet \in BOOLEAN :
                 StartRun(last.model, last.dim, last.steps, last.count, quiet)

\* The pipeline resumed on such a file, every call running to its end.
NextResume ==
    \/ ResumeRun
    \/ WriterThreadOpen
    \/ \E seed \in 1..MaxNumRuns : ComputeAndSend(seed)
    \/ ComputeReturns
    \/ WriterThreadRecv
    \/ WriterThreadFinish
    \/ Join

SpecResume == InitResume /\ [][NextResume]_vars

\* a worker computes a seed and sends it, or the parallel computation
\* returns
WorkerStep ==
    \/ \E seed \in 1..MaxNumRuns : ComputeAndSend(seed)
    \/ ComputeReturns

\* The same runs with the scheduling of threads. Every computation of a
\* worker terminates and calculate_eigenvalues_parallel returns after its
\* last chunk: weak fairness of WorkerStep. For the writer thread and the
\* join, weak fairness is written with the enabling condition of the step:
\* a spawned thread runs, so that its with_expected_size returns or the
\* thread fails; recv returns a message that is in the channel, so that the
\* append is made or fails; recv returns when the channel is empty and the
\* sender dropped, so that finish is made or fails; join returns once the
\* thread has ended. Failures of the writer thread and new calls are not
\* forced.
PipelineFairness ==
    /\ WF_vars(WorkerStep)
    /\ \/ []<>~(wt = "spawned")
       \/ []<><<wt = "spawned" /\ wt' # wt>>_vars
    /\ \/ []<>~(wt = "receiving" /\ chan # <<>>)
       \/ []<><<wt = "receiving" /\ chan # <<>>
                  /\ (wt' # wt \/ Len(chan') < Len(chan))>>_vars
    /\ \/ []<>~(wt = "receiving" /\ chan = <<>> /\ pc = "joining")
       \/ []<><<wt = "receiving" /\ chan = <<>> /\ pc = "joining" /\ wt' # wt>>_vars
    /\ \/ []<>~(pc = "joining" /\ wt \in {"ok", "err", "panicked"})
       \/ []<><<pc = "joining" /\ wt \in {"ok", "err", "panicked"}
                  /\ pc' = "idle">>_vars

\* One run of the pipeline, in which the writer thread may fail, on no
\* file, on a file of the previous format or on the file of a completed run
\* with some records removed (the kept records in the order of their seeds).
InitOneRun ==
    \/ Init
    \/ /\ InitResume
       /\ \A i \in 1..(Len(last.seeds) - 1) : last.seeds[i] < last.seeds[i + 1]

NextOneRun ==
    \/ \E c \in PipelineConfigs, num_runs \in 1..MaxNumRuns, quiet \in BOOLEAN :
          run.runs = 0 /\ StartRun(c[1], c[2], c[3], num_runs, quiet)
    \/ WriterThreadOpen
    \/ \E seed \in 1..MaxNumRuns : ComputeAndSend(seed)
    \/ ComputeReturns
    \/ WriterThreadRecv
    \/ WriterThreadFinish
    \/ Join
    \/ \E how \in {"err", "panicked"} : WriterThreadFails(how)

SpecFaultsFair == InitOneRun /\ [][NextOneRun]_vars /\ PipelineFairness

\* EigenvalueSimulation::new(model, dim, steps, num_runs)
EigenvalueSimulation(model, dim, steps, num_runs) ==
    [model |-> model, dim |-> dim, steps |-> steps, num_runs |-> num_runs]

\* get_filename as it would be if the name carried the run count
get_filename_WithRuns(self, model) ==
    <<"data", "eigenvalues_model", model, "_dim", self.dim, "_steps", self.steps,
      "_", self.num_runs, ".dat">>

\* EigenvalueSimulation::get_filename(&self, model): the path, as the pieces
\* format! and PathBuf::join put together
get_filename(self, model) ==
    <<"data", "eigenvalues_model", model, "_dim", self.dim, "_steps", self.steps,
      ".dat">>

\* ---------------------------------------------------------------------
\* uleb128.rs.  A u32 is the pair <<hi, lo>> of its 16-bit halves, so that
\* all 32 bits are there.
U16_RANGE == 65536
U32(hi, lo) == <<hi, lo>>
U32_ZERO == U32(0, 0)
U32_MAX == U32(U16_RANGE - 1, U16_RANGE - 1)

\* the constants of uleb128.rs
DATA_MASK == 127
CONTINUATION_BIT == 128
GROUP_BITS == 7
MAX_ENCODED_LEN == 5
U32_BITS == 32
LAST_SHIFT == 28
LAST_GROUP_MAX == 15

\* a | b and a & b of two unsigned numbers
RECURSIVE bitor(_, _)
bitor(a, b) ==
    IF a = 0 THEN b
    ELSE IF b = 0 THEN a
    ELSE (IF a % 2 = 1 \/ b % 2 = 1 THEN 1 ELSE 0) + 2 * bitor(a \div 2, b \div 2)

RECURSIVE bitand(_, _)
bitand(a, b) ==
    IF a = 0 \/ b = 0 THEN 0
    ELSE (IF a % 2 = 1 /\ b % 2 = 1 THEN 1 ELSE 0) + 2 * bitand(a \div 2, b \div 2)

\* (value & 0x7F) as u8
u32_low_bits(value) == bitand(value[2], DATA_MASK)

\* value >> k, k at most 16
u32_shr(value, k) ==
    U32(value[1] \div 2^k,
        (value[2] \div 2^k) + (value[1] % 2^k) * 2^(16 - k))

\* value_bits << shift of a u32 below 128, shift below 32: the bits moved
\* beyond bit 31 are lost
u32_shl(value_bits, shift) ==
    IF shift < 16
      THEN U32(((value_bits * 2^shift) \div U16_RANGE) % U16_RANGE,
               (value_bits * 2^shift) % U16_RANGE)
      ELSE U32((value_bits * 2^(shift - 16)) % U16_RANGE, 0)

\* a | b of two u32
u32_or(a, b) == U32(bitor(a[1], b[1]), bitor(a[2], b[2]))

\* the loop of encode: value and result as they are at the top of the loop
RECURSIVE encode_loop(_, _)
encode_loop(value, result) ==
    LET byte == u32_low_bits(value)
        shifted == u32_shr(value, GROUP_BITS)
        pushed == Append(result,
                         IF shifted # U32_ZERO THEN bitor(byte, CONTINUATION_BIT)
                                               ELSE byte)
    IN  IF shifted = U32_ZERO THEN pushed ELSE encode_loop(shifted, pushed)

\* encode(value: u32) -> Vec<u8>
encode(value) == encode_loop(value, <<>>)

\* the while loop of encoded_size
RECURSIVE encoded_size_loop(_, _)
encoded_size_loop(v, size) ==
    IF v = U32_ZERO THEN size
    ELSE encoded_size_loop(u32_shr(v, GROUP_BITS), size + 1)

\* encoded_size without its first branch
encoded_size_ZeroIsEmpty(value) == encoded_size_loop(value, 0)

\* encoded_size(value: u32) -> usize
encoded_size(value) ==
    IF value = U32_ZERO THEN 1 ELSE encoded_size_loop(value, 0)

\* Result<(u32, usize), Uleb128Error>
DecodeOk(value, bytes_read) == [err |-> "", value |-> value, bytes_read |-> bytes_read]
DecodeErr(e) == [err |-> e, value |-> U32_ZERO, bytes_read |-> 0]

\* the for loop of decode with the shift advancing by a whole byte
RECURSIVE decode_loop_ShiftsByte(_, _, _, _)
decode_loop_ShiftsByte(bytes, result, shift, bytes_read) ==
    IF bytes_read = Len(bytes) THEN DecodeErr("IncompleteEncoding")
    ELSE LET n == bytes_read + 1
             byte == bytes[n]
             value_bits == bitand(byte, DATA_MASK)
         IN  IF n > MAX_ENCODED_LEN THEN DecodeErr("EncodingTooLong")
             ELSE IF shift >= U32_BITS THEN DecodeErr("ValueTooLarge")
             ELSE IF shift = LAST_SHIFT /\ value_bits > LAST_GROUP_MAX
               THEN DecodeErr("ValueTooLarge")
             ELSE LET r == u32_or(result, u32_shl(value_bits, shift))
                  IN  IF bitand(byte, CONTINUATION_BIT) = 0 THEN DecodeOk(r, n)
                      ELSE decode_loop_ShiftsByte(bytes, r, shift + 8, n)

\* decode with the length check made after the byte is used, as
\* read_from_reader makes it
RECURSIVE decode_loop_LengthCheckLast(_, _, _, _)
decode_loop_LengthCheckLast(bytes, result, shift, bytes_read) ==
    IF bytes_read = Len(bytes) THEN DecodeErr("IncompleteEncoding")
    ELSE LET n == bytes_read + 1
             byte == bytes[n]
             value_bits == bitand(byte, DATA_MASK)
         IN  IF shift >= U32_BITS THEN DecodeErr("ValueTooLarge")
             ELSE IF shift = LAST_SHIFT /\ value_bits > LAST_GROUP_MAX
               THEN DecodeErr("ValueTooLarge")
             ELSE LET r == u32_or(result, u32_shl(value_bits, shift))
                  IN  IF bitand(byte, CONTINUATION_BIT) = 0 THEN DecodeOk(r, n)
                      ELSE IF n > MAX_ENCODED_LEN THEN DecodeErr("EncodingTooLong")
                      ELSE decode_loop_LengthCheckLast(bytes, r, shift + GROUP_BITS, n)

\* the for loop of decode: result, shift and bytes_read as they are before
\* the next byte is taken
RECURSIVE decode_loop(_, _, _, _)
decode_loop(bytes, result, shift, bytes_read) ==
    IF bytes_read = Len(bytes) THEN DecodeErr("IncompleteEncoding")
    ELSE LET n == bytes_read + 1
             byte == bytes[n]
             value_bits == bitand(byte, DATA_MASK)
         IN  IF n > MAX_ENCODED_LEN THEN DecodeErr("EncodingTooLong")
             ELSE IF shift >= U32_BITS THEN DecodeErr("ValueTooLarge")
             ELSE IF shift = LAST_SHIFT /\ value_bits > LAST_GROUP_MAX
               THEN DecodeErr("ValueTooLarge")
             ELSE LET r == u32_or(result, u32_shl(value_bits, shift))
                  IN  IF bitand(byte, CONTINUATION_BIT) = 0 THEN DecodeOk(r, n)
                      ELSE decode_loop(bytes, r, shift + GROUP_BITS, n)

\* decode(bytes: &[u8]) -> Result<(u32, usize), Uleb128Error>
decode(bytes) == decode_loop(bytes, U32_ZERO, 0, 0)

\* the loop of read_from_reader; source holds the bytes the reader has
\* still to deliver, bytes_read of them taken so far.  read_exact at the
\* end of the source fails with UnexpectedEof, which ? turns into IoError.
RECURSIVE read_from_reader_loop(_, _, _, _)
read_from_reader_loop(source, result, shift, bytes_read) ==
    IF bytes_read = Len(source) THEN DecodeErr("IoError")
    ELSE LET n == bytes_read + 1
             byte == source[n]
             value_bits == bitand(byte, DATA_MASK)
         IN  IF shift >= U32_BITS THEN DecodeErr("ValueTooLarge")
             ELSE IF shift = LAST_SHIFT /\ value_bits > LAST_GROUP_MAX
               THEN DecodeErr("ValueTooLarge")
             ELSE LET r == u32_or(result, u32_shl(value_bits, shift))
                  IN  IF bitand(byte, CONTINUATION_BIT) = 0 THEN DecodeOk(r, n)
                      ELSE IF n > MAX_ENCODED_LEN THEN DecodeErr("EncodingTooLong")
                      ELSE read_from_reader_loop(source, r, shift + GROUP_BITS, n)

\* read_from_reader(reader) -> Result<u32, Uleb128Error>, the reader at the
\* start of source; bytes_read is how far the reader has moved
read_from_reader(source) == read_from_reader_loop(source, U32_ZERO, 0, 0)

\* io::Result<Vec<(u32, Vec<f64>)>>
DataOk(data) == [err |-> "", data |-> data]
DataErr(e) == [err |-> e, data |-> <<>>]

\* EigenvalueSimulation::read_all_data, the file at get_filename(self.model)
\* being f (exists: whether it is there)
read_all_data(self, exists, f) ==
    LET r == read_append_file(exists, f)
    IN  IF r.err # "" THEN DataErr(r.err) ELSE DataOk(r.data)

\* the closure of read_data's filter
SeedInRange(self, rec) == rec[1] <= self.num_runs

\* EigenvalueSimulation::read_data
read_data(self, exists, f) ==
    LET all_data == read_all_data(self, exists, f)
    IN  IF all_data.err # "" THEN DataErr(all_data.err)
        ELSE LET filtered_data ==
                   SelectSeq(all_data.data, LAMBDA rec : SeedInRange(self, rec))
             IN  IF Len(filtered_data) # self.num_runs
                   THEN DataErr("InvalidData: Data count mismatch")
                   ELSE DataOk(filtered_data)

\* A simulation of some model, dim and steps whose file does not exist yet:
\* last holds its parameters and, in values, the path the file of the model
\* stands for.
InitGrow ==
    /\ \E c \in PipelineConfigs, num_runs \in 1..MaxNumRuns :
          last = Op("new", "", c[1], c[2], c[3], 0,
                    get_filename(EigenvalueSimulation(c[1], c[2], c[3], num_runs),
                                 c[1]))
    /\ file_exists = FALSE
    /\ file = <<>>
    /\ w_open = FALSE
    /\ w = NoWriter
    /\ hist = Hist(0, 0, FALSE, <<>>, "none")
    /\ PipelineIdle
    /\ out = <<>>

\* EigenvalueSimulation::run_simulation and run_simulation_quiet of a
\* simulation with these parameters and some num_runs; it acts on the file
\* of the model when get_filename names that file
RunSimulation(num_runs, quiet) ==
    /\ get_filename(EigenvalueSimulation(last.model, last.dim, last.steps, num_runs),
                    last.model) = last.values
    /\ StartRun(last.model, last.dim, last.steps, num_runs, quiet)

\* Simulations of one model, dim and steps run one after another with any
\* run counts, every run to its end.
NextGrow ==
    \/ \E num_runs \in 1..MaxNumRuns, quiet \in BOOLEAN : RunSimulation(num_runs, quiet)
    \/ WriterThreadOpen
    \/ \E seed \in 1..MaxNumRuns : ComputeAndSend(seed)
    \/ ComputeReturns
    \/ WriterThreadRecv
    \/ WriterThreadFinish
    \/ Join

SpecGrow == InitGrow /\ [][NextGrow]_vars

\* the bytes the buffers are made of: a last byte with the data bits 0, 15
\* and 16, and a byte with the continuation bit with no data bit and with
\* all of them
ByteValues == {0, 15, 16, 128, 255}

\* every buffer of up to MaxBuf such bytes
Buffers == UNION {[1..n -> ByteValues] : n \in 0..MaxBuf}

\* what follows an encoding in a longer buffer
Trails == UNION {[1..n -> ByteValues] : n \in 0..MaxTrail}

\* the u32 whose 7-bit groups, least significant first, are g[1]..g[5]
U32FromGroups(g) ==
    U32((g[3] \div 4) + g[4] * 32 + g[5] * 4096,
        g[1] + g[2] * 128 + (g[3] % 4) * 16384)

\* the values encoded: every group 0, 1 or all ones; among them 0, 127,
\* 128, 16383, 16384, 2097151, 2097152, 268435455, 268435456 and u32::MAX
U32Values ==
    {U32FromGroups(<<g1, g2, g3, g4, g5>>) :
        g1 \in {0, 1, 127}, g2 \in {0, 1, 127}, g3 \in {0, 1, 127},
        g4 \in {0, 1, 127}, g5 \in {0, 1, 15}}

\* encode(value), called on its own, and encoded_size(value) with it
Encode(value) ==
    /\ last.op = "none"
    /\ last' = [Op("encode", "", 0, 0, 0, value, encode(value))
                  EXCEPT !.count = encoded_size(value)]
    /\ UNCHANGED <<file_exists, file, w_open, w, hist>>
    /\ UNCHANGED pvars

\* decode(&bytes); encoded holds the value the caller got the front of
\* bytes from, when it got it from encode
Decode(bytes, encoded) ==
    /\ last.op = "none"
    /\ \E r \in {decode(bytes)} :
          last' = [Op("decode", r.err, 0, 0, 0, r.value, bytes)
                     EXCEPT !.count = r.bytes_read, !.seeds = encoded]
    /\ UNCHANGED <<file_exists, file, w_open, w, hist>>
    /\ UNCHANGED pvars

\* read_from_reader(&mut reader), the reader at the start of a file that
\* holds bytes
ReadFromReader(bytes) ==
    /\ last.op = "none"
    /\ \E r \in {read_from_reader(bytes)} :
          last' = [Op("read_from_reader", r.err, 0, 0, 0, r.value, bytes)
                     EXCEPT !.count = r.bytes_read]
    /\ UNCHANGED <<file_exists, file, w_open, w, hist>>
    /\ UNCHANGED pvars

\* The codec applied once to every value and every buffer: the buffers of
\* Buffers and the encodings followed by the trails.
NextCodec ==
    \/ last.op = "none" /\ \E value \in U32Values : Encode(value)
    \/ last.op = "none" /\ \E bytes \in Buffers : Decode(bytes, <<>>)
    \/ last.op = "none" /\ \E value \in U32Values, trail \in Trails :
          Decode(encode(value) \o trail, <<value>>)
    \/ last.op = "none" /\ \E bytes \in Buffers : ReadFromReader(bytes)
    \/ last.op = "none" /\ \E value \in U32Values, trail \in Trails :
          ReadFromReader(encode(value) \o trail)

\* nothing called yet; the codec touches no file
InitCodec == Init /\ ~file_exists

SpecCodec == InitCodec /\ [][NextCodec]_vars

\* ---------------------------------------------------------------------
\* file_format.rs and config.rs: sizes
MIN_READ_BUFFER_SIZE == 64 * 1024
MAX_READ_BUFFER_SIZE == 16 * 1024 * 1024
ONE_MB == 1024 * 1024
HUNDRED_MB == 100 * ONE_MB
MID_READ_BUFFER_CAP == 4 * 1024 * 1024

\* the largest values with 1, 2, 3 and 4 bytes, as calculate_total_uleb128_size
\* has them
ONE_BYTE_MAX == 127
TWO_BYTE_MAX == 16383
THREE_BYTE_MAX == 2097151
FOUR_BYTE_MAX == 268435455

\* a.min(b), a.saturating_sub(b) and v.clamp(lo, hi) of unsigned integers
min(a, b) == IF a <= b THEN a ELSE b
saturating_sub(a, b) == IF a >= b THEN a - b ELSE 0
clamp(v, lo, hi) == IF v < lo THEN lo ELSE IF v > hi THEN hi ELSE v

\* calculate_total_uleb128_size(max_value): the running total and remaining
\* after each of its five steps
calculate_total_uleb128_size(max_value) ==
    IF max_value = 0 THEN 1
    ELSE LET t1 == min(max_value, ONE_BYTE_MAX)
             r1 == saturating_sub(max_value, ONE_BYTE_MAX)
             t2 == t1 + (IF r1 > 0 THEN min(r1, TWO_BYTE_MAX - ONE_BYTE_MAX) * 2 ELSE 0)
             r2 == IF r1 > 0 THEN saturating_sub(r1, TWO_BYTE_MAX - ONE_BYTE_MAX) ELSE r1
             t3 == t2 + (IF r2 > 0 THEN min(r2, THREE_BYTE_MAX - TWO_BYTE_MAX) * 3 ELSE 0)
             r3 == IF r2 > 0 THEN saturating_sub(r2, THREE_BYTE_MAX - TWO_BYTE_MAX) ELSE r2
             t4 == t3 + (IF r3 > 0 THEN min(r3, FOUR_BYTE_MAX - THREE_BYTE_MAX) * 4 ELSE 0)
             r4 == IF r3 > 0 THEN saturating_sub(r3, FOUR_BYTE_MAX - THREE_BYTE_MAX) ELSE r3
         IN  t4 + (IF r4 > 0 THEN r4 * 5 ELSE 0)

\* calculate_expected_file_size(num_runs, eigenvalues_per_run)
calculate_expected_file_size(num_runs, eigenvalues_per_run) ==
    LET header == Len(MAGIC_HEADER) + 1 + 1 + 4
        total_seed_bytes == calculate_total_uleb128_size(num_runs)
        eigenvalues_total_bytes == eigenvalues_per_run * 8 * num_runs
        eigenvalue_counts_bytes == num_runs
        metadata == Len(EOF_MARKER) + 8 + 1
    IN  header + total_seed_bytes + eigenvalue_counts_bytes
          + eigenvalues_total_bytes + metadata

\* calculate_read_buffer_size with the middle range clamped to the overall
\* maximum
calculate_read_buffer_size_ClampsToMax(file_size) ==
    IF file_size < ONE_MB THEN MIN_READ_BUFFER_SIZE
    ELSE IF file_size < HUNDRED_MB
      THEN clamp(file_size \div 8, MIN_READ_BUFFER_SIZE, MAX_READ_BUFFER_SIZE)
    ELSE MAX_READ_BUFFER_SIZE

\* calculate_read_buffer_size(file_size)
calculate_read_buffer_size(file_size) ==
    IF file_size < ONE_MB THEN MIN_READ_BUFFER_SIZE
    ELSE IF file_size < HUNDRED_MB
      THEN clamp(file_size \div 8, MIN_READ_BUFFER_SIZE, MID_READ_BUFFER_CAP)
    ELSE MAX_READ_BUFFER_SIZE

\* the run counts sizes are asked for: 0 and the small ones, past the first
\* change of the identifier's length, and around the second
RunCounts == (0..MaxRunCount) \cup {TWO_BYTE_MAX - 1, TWO_BYTE_MAX, TWO_BYTE_MAX + 1}

\* the file sizes buffer sizes are asked for: around 0, around the sizes
\* where the result changes, and beyond
FileSizes ==
    {b + d : b \in {MaxOffset, 8 * MIN_READ_BUFFER_SIZE, ONE_MB, 2 * ONE_MB,
                     8 * MID_READ_BUFFER_CAP, HUNDRED_MB, 2 * HUNDRED_MB},
             d \in (0 - MaxOffset)..MaxOffset}

\* calculate_expected_file_size(num_runs, eigenvalues_per_run), called on
\* its own
ExpectedFileSize(num_runs, eigenvalues_per_run) ==
    /\ last.op = "none"
    /\ last' = [Op("calculate_expected_file_size", "", 0, 0, 0, 0, <<>>)
                  EXCEPT !.count = calculate_expected_file_size(num_runs,
                                                                eigenvalues_per_run),
                         !.seeds = <<num_runs, eigenvalues_per_run>>]
    /\ UNCHANGED <<file_exists, file, w_open, w, hist>>
    /\ UNCHANGED pvars

\* calculate_read_buffer_size(file_size), called on its own
ReadBufferSize(file_size) ==
    /\ last.op = "none"
    /\ last' = [Op("calculate_read_buffer_size", "", 0, 0, 0, 0, <<>>)
                  EXCEPT !.count = calculate_read_buffer_size(file_size),
                         !.seeds = <<file_size>>]
    /\ UNCHANGED <<file_exists, file, w_open, w, hist>>
    /\ UNCHANGED pvars

\* The two size functions applied once to every input.
NextSizes ==
    \/ last.op = "none" /\ \E num_runs \in RunCounts, per_run \in 0..MaxPerRun :
          ExpectedFileSize(num_runs, per_run)
    \/ last.op = "none" /\ \E file_size \in FileSizes : ReadBufferSize(file_size)

SpecSizes == InitCodec /\ [][NextSizes]_vars

\* the completed_seeds slices handed to get_remaining_seeds: any seeds, in
\* any order, with repetitions, 0 and seeds above total_runs among them
RECURSIVE SeedSeqs(_, _)
SeedSeqs(ids, len) ==
    IF len = 0 THEN {<<>>}
    ELSE SeedSeqs(ids, len - 1)
           \cup {Append(q, id) : q \in {p \in SeedSeqs(ids, len - 1) : Len(p) = len - 1},
                                 id \in ids}

\* get_remaining_seeds(total_runs, &completed_seeds), called on its own
GetRemainingSeeds(total_runs, completed_seeds) ==
    /\ last.op = "none"
    /\ last' = [Op("get_remaining_seeds", "", 0, 0, 0, 0,
                   get_remaining_seeds(total_runs, completed_seeds))
                  EXCEPT !.count = total_runs, !.seeds = completed_seeds]
    /\ UNCHANGED <<file_exists, file, w_open, w, hist>>
    /\ UNCHANGED pvars

\* get_remaining_seeds applied to every total and every completed slice.
NextRemaining ==
    \E total_runs \in 0..MaxNumRuns :
    \E completed_seeds \in SeedSeqs(0..(MaxNumRuns + 1), MaxCompleted) :
        GetRemainingSeeds(total_runs, completed_seeds)

SpecRemaining == Init /\ [][NextRemaining]_vars

\* the slice lengths offered to append_eigenvalues where its limit matters:
\* small ones, the largest a u8 holds, and one more
CountsOffered == (1..MaxValues) \cup {U8_MAX, U8_MAX + 1}

\* The writer API with records up to and beyond the largest value count.
NextCounts ==
    \/ \E c \in PipelineConfigs : Open(c[1], c[2], c[3])
    \/ \E seed \in Seeds, n \in CountsOffered :
          AppendEigenvalues(seed, ValuesFor(seed, n))
    \/ Finish

SpecCounts == Init /\ [][NextCounts]_vars

\* a finished file of the current format: model 0, dim 1, steps 1, the
\* records of seeds 1 and 2 with one value each
FinishedFile ==
    HeaderBytes(0, 1, 1)
      \o to_le_bytes(1, 4) \o <<1>> \o to_le_bytes(EigenValue(1, 1), 8)
      \o to_le_bytes(2, 4) \o <<1>> \o to_le_bytes(EigenValue(2, 1), 8)
      \o EOF_MARKER \o to_le_bytes(2, 8) \o <<1>>

\* an unfinished file of the current format, as a writer dropped after two
\* appends leaves it: the record of seed 1 whose value has the bit pattern
\* 0x5F464F45_00000000 (upper four bytes "EOF_"), then the record of seed
\* 0x4B52414D (bytes "MARK") with the value of bit pattern 0
MarkerInRecordsFile ==
    HeaderBytes(0, 1, 1)
      \o to_le_bytes(1, 4) \o <<1>> \o <<0, 0, 0, 0>> \o SubSeq(EOF_MARKER, 1, 4)
      \o SubSeq(EOF_MARKER, 5, 8) \o <<1>> \o to_le_bytes(0, 8)

\* the files an opening may find: none, files of the previous format
\* revision (with a record, cut after the header, cut after the magic), a
\* finished file of the current format, one cut after its first record,
\* and an unfinished one with the marker's bytes in its records
FilesFound ==
    {<<FALSE, <<>>>>,
     <<TRUE, MarkerInRecordsFile>>,
     <<TRUE, OldFormatFile>>,
     <<TRUE, SubSeq(OldFormatFile, 1, HEADER_LEN)>>,
     <<TRUE, SubSeq(OldFormatFile, 1, Len(MAGIC_HEADER))>>,
     <<TRUE, FinishedFile>>,
     <<TRUE, SubSeq(FinishedFile, 1, HEADER_LEN + 13)>>}

InitFound ==
    /\ \E f0 \in FilesFound : file_exists = f0[1] /\ file = f0[2]
    /\ w_open = FALSE
    /\ w = NoWriter
    /\ last = NoOp
    /\ hist = Hist(0, 0, FALSE, <<>>, "none")
    /\ PipelineIdle
    /\ out = <<>>

\* The writer API with the output of every opening observed.
NextFound ==
    \/ \E c \in PipelineConfigs, quiet \in BOOLEAN : OpenAs(c[1], c[2], c[3], quiet)
    \/ \E seed \in Seeds : AppendEigenvalues(seed, ValuesFor(seed, 1))
    \/ Finish
    \/ DropWriter

SpecFound == InitFound /\ [][NextFound]_vars

\* run_model_simulation finds a parameter mismatch and remove_file fails:
\* the failure is only printed and the function calls itself
StartRunRemoveFails(model, dim, steps, num_runs, quiet) ==
    /\ pc = "idle"
    /\ ~w_open
    /\ run.runs < MaxRuns
    /\ ContainsMismatch(check_append_progress(file_exists, file, model, dim, steps).err)
    /\ run' = Run(run.runs + 1, model, dim, steps, num_runs, quiet,
                  <<>>, <<>>, <<>>, "", 1, "restarting")
    /\ pc' = "restarting"
    /\ wt' = "none"
    /\ chan' = <<>>
    /\ out' = Logged("coordinator",
                     <<"read_append_file">>
                       \o (IF ~quiet
                           THEN <<"WARNING: Existing file has incompatible parameters:">>
                           ELSE <<>>)
                       \o <<"remove_file">>
                       \o (IF ~quiet
                           THEN <<"WARNING: Failed to remove incompatible file">>
                           ELSE <<>>))
    /\ UNCHANGED <<file_exists, file, w_open, w, last, hist>>

\* the call run_model_simulation made of itself while the file is still
\* there: the progress check reports the mismatch again and the function
\* calls itself again, after a remove_file that fails once more or that
\* succeeds, in which case that next call finds no file and goes on to
\* spawn the writer thread
Restart(remove_ok) ==
    /\ pc = "restarting"
    /\ ContainsMismatch(check_append_progress(file_exists, file, run.model, run.dim,
                                              run.steps).err)
    /\ remove_ok \/ run.restarts < MaxRestarts
    /\ file_exists' = ~remove_ok
    /\ file' = IF remove_ok THEN <<>> ELSE file
    /\ \E p \in {check_append_progress(FALSE, <<>>, run.model, run.dim, run.steps)} :
          run' = IF remove_ok
                 THEN [run EXCEPT !.restarts = @ + 1,
                                  !.remaining_seeds =
                                      get_remaining_seeds(run.num_runs, p.completed_seeds),
                                  !.outcome = "running"]
                 ELSE [run EXCEPT !.restarts = @ + 1]
    /\ pc' = IF remove_ok THEN "computing" ELSE "restarting"
    /\ wt' = IF remove_ok THEN "spawned" ELSE "none"
    /\ chan' = <<>>
    /\ out' = Logged("coordinator",
                     <<"read_append_file">>
                       \o (IF ~run.quiet
                           THEN <<"WARNING: Existing file has incompatible parameters:">>
                           ELSE <<>>)
                       \o <<"remove_file">>
                       \o (IF ~run.quiet /\ ~remove_ok
                           THEN <<"WARNING: Failed to remove incompatible file">>
                           ELSE <<>>))
    /\ UNCHANGED <<w_open, w, last, hist>>

\* Runs of the pipeline on one path in which remove_file may fail.
NextRemoveFails ==
    \/ \E c \in PipelineConfigs, num_runs \in 1..MaxNumRuns, quiet \in BOOLEAN :
          StartRun(c[1], c[2], c[3], num_runs, quiet)
    \/ \E c \in PipelineConfigs, num_runs \in 1..MaxNumRuns, quiet \in BOOLEAN :
          StartRunRemoveFails(c[1], c[2], c[3], num_runs, quiet)
    \/ \E remove_ok \in BOOLEAN : Restart(remove_ok)
    \/ WriterThreadOpen
    \/ \E seed \in 1..MaxNumRuns : ComputeAndSend(seed)
    \/ ComputeReturns
    \/ WriterThreadRecv
    \/ WriterThreadFinish
    \/ Join

SpecRemoveFails == Init /\ [][NextRemoveFails]_vars

\* A file with the current magic that read_append_file rejects, as two runs
\* leave it: a run of one seed killed when the BufWriter had spilled the
\* seed and count byte of its record, then a run of two seeds that ran to
\* its end and appended its records and the footer behind those 5 bytes.
StrayThenFinished ==
    HeaderBytes(0, 1, 1)
      \o to_le_bytes(1, 4) \o <<1>>
      \o RecordsBytes([i \in 1..2 |-> <<i, calculate_eigenvalues(1, 1, i, 0)>>])
      \o EOF_MARKER \o to_le_bytes(2, 8) \o <<1>>

RejectedFiles == {StrayThenFinished, MarkerInRecordsFile}

InitRejected ==
    /\ file \in RejectedFiles
    /\ file_exists = TRUE
    /\ w_open = FALSE
    /\ w = NoWriter
    /\ last = NoOp
    /\ hist = Hist(0, 0, FALSE, <<>>, "none")
    /\ PipelineIdle
    /\ out = <<>>

\* The pipeline started on such a file, every call running to its end.
NextRejected ==
    \/ \E c \in PipelineConfigs, num_runs \in 1..MaxNumRuns, quiet \in BOOLEAN :
          StartRun(c[1], c[2], c[3], num_runs, quiet)
    \/ WriterThreadOpen
    \/ \E seed \in 1..MaxNumRuns : ComputeAndSend(seed)
    \/ ComputeReturns
    \/ WriterThreadRecv
    \/ WriterThreadFinish
    \/ Join

SpecRejected == InitRejected /\ [][NextRejected]_vars

(***************************************************************************)
(* Properties                                                              *)
(***************************************************************************)
ReadNow == read_append_file(file_exists, file)

\* the caller's and the file's (model, dim, steps) disagree: the first
\* field, in the order model, dim, steps, in which they do
FirstMismatch(fm, fd, fs, model, dim, steps) ==
    IF fm # model THEN "Model mismatch"
    ELSE IF fd # dim THEN "Dimension mismatch"
    ELSE IF fs # steps THEN "Steps mismatch"
    ELSE ""

\* C1: after open on a nonexistent path, successful appends and finish,
\* read returns exactly the accepted records, in the order appended, with
\* the model, dimension and step count given at open.
C1_RoundTrip ==
    (last.op = "finish" /\ last.err = "" /\ hist.fresh) =>
        /\ ReadNow.err = ""
        /\ ReadNow.data = hist.accepted
        /\ ReadNow.model = last.model
        /\ ReadNow.dim = last.dim
        /\ ReadNow.steps = last.steps

\* C2: a file made by a writer opened on a nonexistent path that appended
\* records of at least one value each and never called finish is read
\* without error, and read returns every complete record of the file.
C2_ScanRecoversComplete ==
    (/\ hist.fresh
     /\ hist.lifecycle \in {"dropped", "crashed"}
     /\ \A i \in 1..Len(hist.accepted) : Len(hist.accepted[i][2]) >= 1) =>
        /\ ReadNow.err = ""
        /\ ReadNow.data = StoredLayout(file).data

\* C3: right after a writer has opened an existing file whose header matches
\* the caller's parameters, the file ends at the end of its last complete
\* record: no footer bytes and no bytes of an incomplete record remain.
C3_ReopenTruncatesToLastRecord ==
    (/\ last.op = "open" /\ last.err = "" /\ ~hist.fresh
     /\ Len(file) >= HEADER_LEN
     /\ Slice(file, 0, HEADER_LEN) = HeaderBytes(last.model, last.dim, last.steps)) =>
        Len(file) = StoredLayout(file).end

\* C6: after a successful finish the file ends with the 17-byte footer, whose
\* total_count is the number of records stored between header and footer and
\* whose value_count is their common value count (0 when there are none).
C6_FooterCountsStoredRecords ==
    (last.op = "finish" /\ last.err = "") =>
        /\ Len(file) >= HEADER_LEN + FOOTER_LEN
        /\ LET body == SubSeq(file, 1, Len(file) - FOOTER_LEN)
               stored == StoredLayout(body).data
               per_run == IF stored = <<>> THEN 0 ELSE Len(stored[1][2])
           IN  /\ \A i \in 1..Len(stored) : Len(stored[i][2]) = per_run
               /\ Slice(file, Len(file) - FOOTER_LEN, FOOTER_LEN)
                    = EOF_MARKER \o to_le_bytes(Len(stored), 8)
                        \o to_le_bytes(per_run, 1)

\* C7: while a writer is open, the file starts with the current magic
\* followed by the model, dimension and step count the writer was opened
\* with.
C7_OpenWriterHeaderMatches ==
    w_open =>
        /\ Len(file) >= HEADER_LEN
        /\ Slice(file, 0, HEADER_LEN) = HeaderBytes(w.model, w.dim, w.steps)

\* C8: an open on an existing file that read accepts and whose header model,
\* dimension or step count differs from the caller's fails with the error
\* naming the first differing field, and leaves the file as it was.
C8_MismatchNamedFileUntouched ==
    [][(/\ last'.op = "open"
        /\ hist'.opens = hist.opens + 1
        /\ ReadNow.err = ""
        /\ FirstMismatch(ReadNow.model, ReadNow.dim, ReadNow.steps,
                         last'.model, last'.dim, last'.steps) # "")
       => (/\ last'.err = FirstMismatch(ReadNow.model, ReadNow.dim, ReadNow.steps,
                                        last'.model, last'.dim, last'.steps)
           /\ ~w_open'
           /\ file_exists' = file_exists
           /\ file' = file)]_vars

\* C8 witness: an open failed with a model mismatch on a file whose
\* dimension and step count differ from the caller's as well, and the file
\* still carries its footer.
C8_Witness ==
    /\ last.op = "open" /\ last.err = "Model mismatch"
    /\ ReadNow.err = "" /\ ReadNow.dim # last.dim /\ ReadNow.steps # last.steps
    /\ Len(ReadNow.data) >= 1
    /\ read_file_metadata(file, Len(file))[1]

\* C9: check_progress on an existing file with the current magic whose
\* header model, dimension or step count differs from the expected one
\* returns a mismatch error, whatever follows the header.
C9_MismatchAlwaysReported ==
    (/\ last.op = "check_progress"
     /\ file_exists /\ Len(file) >= HEADER_LEN
     /\ Slice(file, 0, 12) = MAGIC_HEADER
     /\ Slice(file, 0, HEADER_LEN) # HeaderBytes(last.model, last.dim, last.steps)) =>
        last.err \in {"Model mismatch", "Dimension mismatch", "Steps mismatch"}

\* C10: check_progress returns the identifiers of the records read returns,
\* in file order, and their number; it returns (0, []) without error when
\* the file does not exist or read fails.
C10_ProgressIsReaderIds ==
    last.op = "check_progress" =>
        /\ (~file_exists \/ ReadNow.err # "") =>
              (last.err = "" /\ last.count = 0 /\ last.seeds = <<>>)
        /\ (/\ ReadNow.err = ""
            /\ FirstMismatch(ReadNow.model, ReadNow.dim, ReadNow.steps,
                             last.model, last.dim, last.steps) = "") =>
              /\ last.err = ""
              /\ last.count = Len(ReadNow.data)
              /\ Len(last.seeds) = Len(ReadNow.data)
              /\ \A i \in 1..Len(ReadNow.data) : last.seeds[i] = ReadNow.data[i][1]

\* C10 witness: a progress check answered with two identifiers that are not
\* in ascending order.
C10_Witness ==
    /\ last.op = "check_progress" /\ last.err = ""
    /\ last.count = 2 /\ last.seeds = <<1, 0>>

\* the file ends in a complete end marker: it was finished and not reopened
Finalized ==
    /\ file_exists
    /\ read_file_metadata(file, Len(file))[1]

\* no seed occurs in two of the records data
DistinctSeeds(data) ==
    \A i, j \in 1..Len(data) : data[i][1] = data[j][1] => i = j

\* C4: from a finalized file holding the seeds 1..N of a run, rewritten
\* without a subset S of its records, every call of the pipeline with total
\* N ends normally and leaves a finalized file that holds exactly the seeds
\* 1..N, each once; the records that were kept are unchanged, and every
\* record carries the values calculate_eigenvalues gives for its seed.
C4_ResumeCompletesRun ==
    (pc = "idle" /\ run.runs >= 1) =>
        /\ run.outcome \in {"returned", "skipped"}
        /\ Finalized
        /\ ReadNow.err = ""
        /\ Len(ReadNow.data) = last.count
        /\ {ReadNow.data[i][1] : i \in 1..Len(ReadNow.data)} = 1..last.count
        /\ [i \in 1..Len(last.seeds) |-> ReadNow.data[i][1]] = last.seeds
        /\ \A i \in 1..Len(ReadNow.data) :
              ReadNow.data[i][2] =
                 calculate_eigenvalues(last.dim, last.steps, ReadNow.data[i][1],
                                       last.model)

\* a run of three seeds whose file kept one record is completed by a call
\* that computed and appended the two removed ones
C4_Witness ==
    /\ pc = "idle"
    /\ run.outcome = "returned"
    /\ last.count = 3
    /\ Len(last.seeds) = 1
    /\ Len(run.sent) = 2
    /\ Len(ReadNow.data) = 3

\* C5: in a finalized file reached by runs of the pipeline on one path, any
\* of which may have been killed, each identifier appears in at most one of
\* the records the reader returns.
C5_OneRecordPerIdentifier ==
    (pc = "idle" /\ Finalized /\ ReadNow.err = "") => DistinctSeeds(ReadNow.data)

\* C11: get_remaining_seeds(total, completed) returns exactly the seeds of
\* 1..total that do not occur in completed, each once and in ascending
\* order; seeds of completed outside 1..total and repetitions in completed
\* do not change the result.
C11_RemainingIsDifference ==
    last.op = "get_remaining_seeds" =>
        LET completed_set == {last.seeds[i] : i \in 1..Len(last.seeds)}
            inside == SelectSeq(last.seeds, LAMBDA seed : seed \in 1..last.count)
        IN  /\ {last.values[i] : i \in 1..Len(last.values)} = (1..last.count) \ completed_set
            /\ \A i \in 1..(Len(last.values) - 1) : last.values[i] < last.values[i + 1]
            /\ last.values = get_remaining_seeds(last.count, inside)
            /\ \A q \in SeedSeqs(completed_set, Len(last.seeds)) :
                  {q[i] : i \in 1..Len(q)} = completed_set
                     => get_remaining_seeds(last.count, q) = last.values

\* total 3 with completed [2, 2, 4]: a repetition and a seed above the total
C11_Witness ==
    /\ last.op = "get_remaining_seeds"
    /\ last.count = 3
    /\ last.seeds = <<2, 2, 4>>
    /\ last.values = <<1, 3>>

\* C12: append_eigenvalues returns an error exactly when the slice has more
\* than 255 values or a length different from the value count the writer
\* holds as established; a rejected call writes no byte and leaves the
\* record count and the established value count as they were, so a valid
\* append after it is accepted; a slice of exactly 255 values is accepted by
\* a writer with no established count.
C12_RejectedAppendChangesNothing ==
    [][(hist'.appends = hist.appends + 1) =>
         LET len == Len(last'.values)
             rejected == \/ len > U8_MAX
                         \/ /\ w.eigenvalues_per_run # None
                            /\ len # w.eigenvalues_per_run
         IN  /\ (last'.err # "") <=> rejected
             /\ rejected => (file' = file /\ w' = w)
             /\ ~rejected =>
                   /\ w'.written_count = w.written_count + 1
                   /\ w'.eigenvalues_per_run = len
                   /\ Len(file') + Len(w'.buf) = Len(file) + Len(w.buf) + 5 + 8 * len]_vars

\* a record of 255 values was accepted, and the next call, with one value,
\* was rejected
C12_Witness ==
    /\ last.op = "append"
    /\ last.err # ""
    /\ Len(last.values) = 1
    /\ w_open
    /\ w.written_count = 1
    /\ w.eigenvalues_per_run = U8_MAX
    /\ Len(hist.accepted) = 1

\* the file without its footer, when it ends in one
Body(f) ==
    IF Len(f) >= HEADER_LEN + FOOTER_LEN /\ read_file_metadata(f, Len(f))[1]
    THEN SubSeq(f, 1, Len(f) - FOOTER_LEN)
    ELSE f

\* C13: in every file left by opens, appends, finishes, drops, crashes and
\* reopens of the writer, all stored records have the same value count, the
\* one of the first record stored.
C13_StoredRecordsShareCount ==
    (/\ ~w_open
     /\ file_exists
     /\ Len(file) >= HEADER_LEN
     /\ Slice(file, 0, 12) = MAGIC_HEADER) =>
        LET stored == StoredLayout(Body(file)).data
        IN  \A i \in 1..Len(stored) : Len(stored[i][2]) = Len(stored[1][2])

\* the file on disk starts with 12 bytes that are not the current magic
Incompatible ==
    /\ file_exists
    /\ Len(file) >= Len(MAGIC_HEADER)
    /\ SubSeq(file, 1, Len(MAGIC_HEADER)) # MAGIC_HEADER

\* C14: an opening that finds an existing file whose first 12 bytes are not
\* the current magic succeeds and leaves a file holding exactly the 18-byte
\* header of the caller's model, dim and steps - nothing of the old file -
\* and a writer with an empty buffer, a record count of 0 and no established
\* value count.
C14_IncompatibleFileRecreated ==
    [][(last'.op = "open" /\ hist'.opens = hist.opens + 1 /\ Incompatible)
         => /\ last'.err = ""
            /\ w_open'
            /\ file_exists'
            /\ file' = HeaderBytes(last'.model, last'.dim, last'.steps)
            /\ Len(file') = HEADER_LEN
            /\ w' = AppendOnlyWriter(<<>>, 0, None, last'.model, last'.dim,
                                     last'.steps)]_vars

\* an old-format file holding a record was opened with other parameters
\* than it names and was replaced by a bare header
C14_Witness ==
    /\ last.op = "open"
    /\ last.err = ""
    /\ hist.opens = 1
    /\ \E i \in 1..Len(out) : out[i].ev = "remove_file"
    /\ last.model = 1
    /\ file = HeaderBytes(1, 1, 1)
    /\ w_open
    /\ w.written_count = 0
    /\ w.eigenvalues_per_run = None

\* C15: a progress check made on a file for which the reader reports a magic
\* mismatch does not return an ordinary success: it returns an error.
C15_MagicMismatchNotSwallowed ==
    (last.op = "check_progress"
       /\ ReadNow.err = "File format error: magic header mismatch")
      => last.err # ""

\* C16: whenever a caller of the writer or the writer thread removes a file
\* because of a magic mismatch, it has logged a message before the removal,
\* whatever the value of quiet.
C16_DeletionLoggedFirst ==
    \A i \in 1..Len(out) :
       (out[i].ev = "remove_file" /\ out[i].by \in {"caller", "writer"})
         => \E j \in 1..(i - 1) :
               out[j].ev = "WARNING: Incompatible file format detected, recreating file..."

\* the messages sent on the channel in this run, in the order of sending
SentRecords ==
    [i \in 1..Len(run.sent) |->
        <<run.sent[i],
          calculate_eigenvalues(run.dim, run.steps, run.sent[i], run.model)>>]

\* C17: when the writer thread writes the footer, calculate_eigenvalues_parallel
\* has returned and dropped the sender with every remaining seed sent, the
\* channel is empty, the writer has counted every record of the file at the
\* start plus every record sent, the bytes in front of the footer end with
\* the records sent in the order of sending, and the 17 bytes of the footer
\* are all that is added; from then to the end of the run the file does not
\* change and nothing is on the channel.
C17_FooterAfterEveryRecord ==
    [][/\ (wt = "receiving" /\ wt' = "ok")
          => LET body == file \o w.buf
                 sent == RecordsBytes(SentRecords)
             IN  /\ pc = "joining"
                 /\ chan = <<>>
                 /\ Len(run.sent) = Len(run.remaining_seeds)
                 /\ w.written_count = Len(run.start_data) + Len(run.sent)
                 /\ Len(body) >= HEADER_LEN + Len(sent)
                 /\ SubSeq(body, Len(body) - Len(sent) + 1, Len(body)) = sent
                 /\ Len(file') = Len(body) + FOOTER_LEN
                 /\ SubSeq(file', 1, Len(body)) = body
                 /\ SubSeq(file', Len(body) + 1, Len(body) + Len(EOF_MARKER))
                      = EOF_MARKER
       /\ wt = "ok" => (file' = file /\ chan' = <<>>)]_vars

\* the writer thread has written the footer of a run that sent three records
C17_Witness ==
    /\ wt = "ok"
    /\ pc = "joining"
    /\ Len(run.sent) = 3
    /\ run.model = 1
    /\ Finalized
    /\ ReadNow.err = ""
    /\ Len(ReadNow.data) = 3

\* the entries of out that are calls on the file
FileCalls == {"read_append_file", "remove_file", "create", "open_read_write",
              "set_len", "open_append", "write"}
\* those that open the file for writing
OpensForWriting == {"create", "open_read_write", "open_append"}

\* C18: from the spawn of the writer thread to its end every call on the
\* file is made by the writer thread, and the file changes in no step of
\* the coordinator or of a worker; the file is opened for writing by the
\* writer thread only, and only while no writer is open.
C18_WriterThreadOwnsFile ==
    [][/\ ReceiverAlive
          => /\ \A i \in 1..Len(out') :
                   out'[i].ev \in FileCalls => out'[i].by = "writer"
             /\ (file' # file \/ file_exists' # file_exists)
                   => (out' # <<>> /\ out'[1].by = "writer")
       /\ \A i \in 1..Len(out') :
             out'[i].ev \in OpensForWriting
               => (out'[i].by = "writer" /\ wt = "spawned" /\ ~w_open)
       /\ w_open' => wt' = "receiving"]_vars

\* the writer thread has just written to the file while the workers of a
\* resumed run are still computing
C18_Witness ==
    /\ wt = "receiving"
    /\ pc = "computing"
    /\ run.runs = 2
    /\ run.start_data # <<>>
    /\ Len(run.sent) < Len(run.remaining_seeds)
    /\ out = Logged("writer", <<"write">>)

\* the writer thread has ended with an error or a panic
WriterFailed == wt \in {"err", "panicked"}

\* C19: once the writer thread has ended with an error or a panic the call
\* of run_model_simulation ends in no other way than a panic, and it logs
\* no success; a send fails only when the writer thread has ended so.
C19_WriterFailureIsFatal ==
    [][/\ (WriterFailed /\ pc # "idle" /\ pc' = "idle")
          => /\ run'.outcome = "panic"
             /\ \E i \in 1..Len(out') : out'[i].ev \in Panics
             /\ \A i \in 1..Len(out') :
                   out'[i].ev # "SUCCESS: append file validation successful"
       /\ (WriterFailed /\ pc # "idle") => (WriterFailed' \/ pc' = "idle")
       /\ (pc = "computing" /\ run'.sent # run.sent /\ chan' = chan)
          => (WriterFailed /\ WriterFailed')]_vars

\* a run of three seeds whose writer thread failed before it had created
\* the file - no record sent was ever received - has ended in a panic
C19_Witness ==
    /\ pc = "idle"
    /\ run.outcome = "panic"
    /\ run.runs = 1
    /\ Len(run.sent) = 3
    /\ ~file_exists
    /\ out = Logged("coordinator", <<"panic: Writer thread error">>)

\* C20: when run_model_simulation ends after its writer thread has finished
\* the file, it has read the file back, and if the read failed or gave
\* another number of records than num_runs the call has ended in a panic,
\* whatever the value of quiet.
C20_CountValidatedAfterFinish ==
    [][(pc = "joining" /\ wt = "ok" /\ pc' = "idle" /\ run'.outcome # "killed")
         => /\ \E i \in 1..Len(out') :
                  out'[i] = [by |-> "coordinator", ev |-> "read_append_file"]
            /\ (ReadNow.err # "" \/ Len(ReadNow.data) # run.num_runs)
                  => run'.outcome = "panic"]_vars

\* a is a prefix of b
IsPrefix(a, b) == Len(a) <= Len(b) /\ SubSeq(b, 1, Len(a)) = a

\* the header of f and the complete records laid out behind it
Kept(f) == SubSeq(f, 1, StoredLayout(f).end)

\* C21: in every step taken on an existing file of the current format -
\* an opening, an append, a finish, a drop - the header and the complete
\* records the file holds before the step are a prefix of the file after
\* it.
C21_StoredRecordsStayPrefix ==
    [][(file_exists /\ Len(file) >= HEADER_LEN
          /\ SubSeq(file, 1, Len(MAGIC_HEADER)) = MAGIC_HEADER)
         => (file_exists' /\ IsPrefix(Kept(file), file'))]_vars

\* C22: for an existing file that starts with the magic, holds the whole
\* 18-byte header and is shorter than 35 bytes, read returns no record, the
\* model, dim and steps of the header, and no error.
C22_ShortFileReadsEmpty ==
    (file_exists /\ Len(file) >= HEADER_LEN /\ Len(file) < HEADER_LEN + FOOTER_LEN
       /\ SubSeq(file, 1, Len(MAGIC_HEADER)) = MAGIC_HEADER)
      => ReadNow = ReadOk(<<>>, file[13], file[14],
                          from_le_bytes(SubSeq(file, 15, 18)))

\* a 31-byte file - the header with steps 258 and one record - is read as
\* empty with the header's values
C22_Witness ==
    /\ file_exists
    /\ Len(file) = 31
    /\ SubSeq(file, 1, HEADER_LEN) = HeaderBytes(1, 2, 258)
    /\ ReadNow = ReadOk(<<>>, 1, 2, 258)

\* the file ends with a footer: the marker sits 17 bytes before its end
HasFooter ==
    /\ file_exists
    /\ Len(file) >= HEADER_LEN + FOOTER_LEN
    /\ SubSeq(file, 1, Len(MAGIC_HEADER)) = MAGIC_HEADER
    /\ Slice(file, Len(file) - FOOTER_LEN, 8) = EOF_MARKER

\* C23: for a file that ends with a footer naming total_count records of
\* value_count values, with the records laid out from the end of the
\* header: if one of the first total_count of them declares no value or
\* another number of values than value_count, read fails with InvalidData
\* and returns no record; and whenever read succeeds it returns exactly the
\* first total_count records of the layout.
C23_FastPathAllOrInvalidData ==
    HasFooter =>
      LET total_count == from_le_bytes(Slice(file, Len(file) - 9, 8))
          value_count == file[Len(file)]
          laid == StoredLayout(file).data
          n == IF Len(laid) < total_count THEN Len(laid) ELSE total_count
      IN  /\ (\E i \in 1..n : Len(laid[i][2]) = 0 \/ Len(laid[i][2]) # value_count)
                => /\ ReadNow.err \in {"InvalidData: zero count",
                                       "InvalidData: count mismatch"}
                   /\ ReadNow.data = <<>>
          /\ ReadNow.err = ""
                => /\ Len(laid) >= total_count
                   /\ ReadNow.data = SubSeq(laid, 1, total_count)
                   /\ \A i \in 1..total_count : Len(laid[i][2]) = value_count

\* a finished file whose first record holds one value while its footer
\* names two values per record: read fails with the count mismatch
C23_Witness ==
    /\ HasFooter
    /\ file[Len(file)] = 2
    /\ from_le_bytes(Slice(file, Len(file) - 9, 8)) >= 1
    /\ Len(StoredLayout(file).data) >= 2
    /\ Len(StoredLayout(file).data[1][2]) = 1
    /\ ReadNow.err = "InvalidData: count mismatch"

\* the seeds of the records data, as a set
SeedsOf(data) == {data[i][1] : i \in 1..Len(data)}

Readers == {EigenvalueSimulation(0, 1, 1, n) : n \in 0..MaxNumRuns}

\* the records stored in the file with a seed of at most n
StoredUpTo(n) ==
    SelectSeq(StoredLayout(file).data, LAMBDA rec : rec[1] <= n)

\* C25: for every run count, read_data fails when the file is missing and
\* when the records stored in the file with a seed of at most num_runs are
\* not exactly num_runs; when it succeeds it returns those records and
\* nothing else; read_all_data returns every record stored in the file, the
\* same for every run count.
C25_ReadDataFiltersAndCounts ==
    \A self \in Readers :
      LET rd == read_data(self, file_exists, file)
          ra == read_all_data(self, file_exists, file)
      IN  /\ ~file_exists => (rd.err # "" /\ ra.err # "")
          /\ Len(StoredUpTo(self.num_runs)) # self.num_runs => rd.err # ""
          /\ rd.err = "" =>
                /\ \A i \in 1..Len(rd.data) : rd.data[i][1] <= self.num_runs
                /\ rd.data = StoredUpTo(self.num_runs)
          /\ \A other \in Readers : read_all_data(other, file_exists, file) = ra
          /\ (file_exists /\ ra.err = "") => ra.data = StoredLayout(file).data

\* the i-th 7-bit group of a u32, the least significant being the first
GroupOf(v, i) ==
    CASE i = 1 -> v[2] % 128
      [] i = 2 -> (v[2] \div 128) % 128
      [] i = 3 -> (v[2] \div 16384) + (v[1] % 32) * 4
      [] i = 4 -> (v[1] \div 32) % 128
      [] i = 5 -> v[1] \div 4096
      [] OTHER -> 0

\* the number of groups up to the last one that is not zero, 1 for zero
MinimalLen(v) ==
    CHOOSE n \in 1..5 :
      /\ \A i \in (n + 1)..5 : GroupOf(v, i) = 0
      /\ n > 1 => GroupOf(v, n) # 0

\* C26: encode(v) has 1 to 5 bytes, every byte but the last is 128 or more
\* and the last is below 128, the last byte is zero only for v = 0, the low
\* seven bits of the i-th byte are the i-th 7-bit group of v counted from
\* the least significant, no shorter sequence of groups gives v, and
\* encoded_size(v) is the number of bytes.
C26_EncodeIsMinimalLeb128 ==
    last.op = "encode" =>
      LET v == last.seed
          e == last.values
      IN  /\ Len(e) \in 1..5
          /\ \A i \in 1..(Len(e) - 1) : e[i] \in 128..255
          /\ e[Len(e)] \in 0..127
          /\ e[Len(e)] = 0 => v = U32_ZERO
          /\ \A i \in 1..Len(e) : e[i] % 128 = GroupOf(v, i)
          /\ Len(e) = MinimalLen(v)
          /\ last.count = Len(e)

\* u32::MAX has been encoded: 0xFF four times and 0x0F
C26_Witness ==
    /\ last.op = "encode"
    /\ last.seed = U32_MAX
    /\ last.values = <<255, 255, 255, 255, 15>>
    /\ last.count = 5

\* the bytes of b from the first up to the n-th all have the continuation bit
AllContinue(b, n) == \A i \in 1..n : b[i] >= CONTINUATION_BIT

\* the data bits of the fifth byte of b fit in the four bits left of a u32
FifthFits(b) == b[5] % CONTINUATION_BIT <= LAST_GROUP_MAX

\* the index of the first byte of b without the continuation bit, 0 when
\* there is none
FirstLast(b) ==
    IF \A i \in 1..Len(b) : b[i] >= CONTINUATION_BIT THEN 0
    ELSE CHOOSE k \in 1..Len(b) : b[k] < CONTINUATION_BIT /\ AllContinue(b, k - 1)

\* the 7-bit groups of the first k bytes of b, k at most 5, zero beyond
GroupsOf(b, k) == [i \in 1..5 |-> IF i <= k THEN b[i] % CONTINUATION_BIT ELSE 0]

\* C27: when decode was given encode(v) followed by any bytes, it has
\* succeeded with the value v and the length of encode(v) as the number of
\* bytes used; and so for every buffer whose bytes up to the first one
\* without the continuation bit are what encode gives for the value of
\* their groups.
C27_DecodeInvertsEncode ==
    last.op = "decode" =>
      /\ last.seeds # <<>> =>
            /\ IsPrefix(encode(last.seeds[1]), last.values)
            /\ last.err = ""
            /\ last.seed = last.seeds[1]
            /\ last.count = Len(encode(last.seeds[1]))
      /\ LET b == last.values
             k == FirstLast(b)
         IN  (k \in 1..5 /\ (k = 5 => FifthFits(b))) =>
               LET v == U32FromGroups(GroupsOf(b, k))
               IN  encode(v) = SubSeq(b, 1, k) =>
                     /\ last.err = ""
                     /\ last.seed = v
                     /\ last.count = k

\* the encoding of u32::MAX followed by a byte has been decoded
C27_Witness ==
    /\ last.op = "decode"
    /\ last.seeds = <<U32_MAX>>
    /\ last.values = encode(U32_MAX) \o <<255>>
    /\ last.err = ""
    /\ last.seed = U32_MAX
    /\ last.count = 5

\* C28: decode fails with ValueTooLarge exactly when the first four bytes
\* have the continuation bit and the data bits of the fifth exceed 0x0F;
\* with EncodingTooLong exactly when the first five bytes have the
\* continuation bit, the fifth fits and there is a sixth byte; with
\* IncompleteEncoding exactly when the buffer has at most five bytes, all
\* with the continuation bit, and its fifth, if there is one, fits - the
\* empty buffer included; in every other case it succeeds, having used the
\* bytes up to the first one without the continuation bit and returning
\* the value of their 7-bit groups.
C28_DecodeErrorCases ==
    last.op = "decode" =>
      LET b == last.values
          too_large == Len(b) >= 5 /\ AllContinue(b, 4) /\ ~FifthFits(b)
          too_long == Len(b) >= 6 /\ AllContinue(b, 5) /\ FifthFits(b)
          incomplete == /\ Len(b) <= 5
                        /\ AllContinue(b, Len(b))
                        /\ Len(b) = 5 => FifthFits(b)
      IN  /\ last.err = "ValueTooLarge" <=> too_large
          /\ last.err = "EncodingTooLong" <=> too_long
          /\ last.err = "IncompleteEncoding" <=> incomplete
          /\ ~(too_large \/ too_long \/ incomplete) =>
                /\ last.err = ""
                /\ last.count \in 1..5
                /\ b[last.count] < CONTINUATION_BIT
                /\ AllContinue(b, last.count - 1)
                /\ \A i \in 1..5 :
                      GroupOf(last.seed, i)
                        = IF i <= last.count THEN b[i] % CONTINUATION_BIT ELSE 0

\* six bytes with the continuation bit have been decoded: too long
C28_Witness ==
    /\ last.op = "decode"
    /\ last.values = <<128, 128, 128, 128, 128, 128>>
    /\ last.err = "EncodingTooLong"

\* C29: read_from_reader over a source ends as decode over the same bytes
\* does: with the same error kind, or with the same value.
C29_StreamingAgreesWithSlice ==
    last.op = "read_from_reader" =>
      LET d == decode(last.values)
      IN  /\ last.err = d.err
          /\ d.err = "" => last.seed = d.value

\* a seed of the model as a u32
u32_of(n) == U32(n \div U16_RANGE, n % U16_RANGE)

\* a finished file whose one record, seed 1 with the value 5, has that layout
VarintFile ==
    HeaderBytes(0, 1, 1) \o encode(u32_of(1)) \o <<1>> \o to_le_bytes(5, 8)
      \o EOF_MARKER \o to_le_bytes(1, 8) \o <<1>>

\* C30: every accepted append adds exactly
\* encoded_size(seed) + 1 + 8 * value_count bytes to what the writer has
\* written (the file and the bytes still in its buffer) - the seed as a
\* varint, the count byte, the values in 8 bytes each - and read_append_file
\* returns the record of a finished file laid out so.
C30_RecordUsesVarintIdentifier ==
    [][(hist'.appends = hist.appends + 1 /\ last'.err = "") =>
            LET seed == last'.seed
                eigenvalues == last'.values
                before == file \o w.buf
                after == file' \o w'.buf
                size == encoded_size(u32_of(seed)) + 1 + 8 * Len(eigenvalues)
            IN  /\ Len(after) = Len(before) + size
                /\ SubSeq(after, Len(before) + 1, Len(before) + Len(encode(u32_of(seed))))
                     = encode(u32_of(seed))
                /\ read_append_file(TRUE, VarintFile)
                     = ReadOk(<<<<1, <<5>>>>>>, 0, 1, 1)]_vars

\* the sum of encoded_size(i) for the identifiers i in lo..hi
RECURSIVE SumEncodedSizes(_, _)
SumEncodedSizes(lo, hi) ==
    IF lo > hi THEN 0
    ELSE IF lo = hi THEN encoded_size(u32_of(lo))
    ELSE LET mid == (lo + hi) \div 2
         IN  SumEncodedSizes(lo, mid) + SumEncodedSizes(mid + 1, hi)

\* C31: calculate_expected_file_size(run_count, values_per_run) is the 18
\* bytes of the header, for every identifier i in 1..run_count the
\* encoded_size(i) + 1 + 8 * values_per_run bytes of its record, and the 17
\* bytes of the footer; for run_count 0 that is header and footer.
C31_ExpectedSizeSumsVarintSizes ==
    last.op = "calculate_expected_file_size" =>
      LET run_count == last.seeds[1]
          values_per_run == last.seeds[2]
      IN  last.count
            = HEADER_LEN
                + SumEncodedSizes(1, run_count)
                + run_count * (1 + 8 * values_per_run)
                + FOOTER_LEN

\* C32: calculate_read_buffer_size is 64 KiB below 1 MiB, file_size / 8
\* held within 64 KiB and 4 MiB from 1 MiB to below 100 MiB, 16 MiB from
\* 100 MiB on, and always within 64 KiB and 16 MiB.
C32_ReadBufferSizeRanges ==
    last.op = "calculate_read_buffer_size" =>
      LET file_size == last.seeds[1]
          eighth == file_size \div 8
      IN  /\ file_size < 1048576 => last.count = 65536
          /\ (file_size >= 1048576 /\ file_size < 104857600) =>
                last.count = IF eighth < 65536 THEN 65536
                             ELSE IF eighth > 4194304 THEN 4194304
                             ELSE eighth
          /\ file_size >= 104857600 => last.count = 16777216
          /\ last.count >= 65536
          /\ last.count <= 16777216

\* a file a little over 32 MiB: an eighth of it is over 4 MiB, the result
\* is 4 MiB
C32_Witness ==
    /\ last.op = "calculate_read_buffer_size"
    /\ last.seeds = <<33554432 + 8>>
    /\ last.count = 4194304

\* C33: when run_model_simulation has returned, the file is there and read
\* returns a record for every seed in 1..num_runs - also when it returned
\* at once because the file held num_runs records or more.
C33_ReturnedRunHoldsAllSeeds ==
    (pc = "idle" /\ run.outcome \in {"returned", "skipped"}) =>
      /\ file_exists
      /\ ReadNow.err = ""
      /\ (1..run.num_runs) \subseteq SeedsOf(ReadNow.data)

\* the run in progress or last made found a file with the current magic
\* that read_append_file rejected
StartedOnUnparseable ==
    /\ run.runs > 0
    /\ run.start_err \notin {"", "NotFound", "File format error: magic header mismatch"}

\* C34: a run that finds a file with the current magic which the reader
\* rejects is given no completed work by the progress check (all of 1..num_runs
\* is scheduled), and when it returns the file is finalized and reads back as
\* exactly the identifiers 1..num_runs.
C34_UnparseableFileDoesNotBlock ==
    StartedOnUnparseable =>
      /\ run.outcome \in {"running", "killed", "returned"}
      /\ run.outcome = "running" =>
           run.remaining_seeds = [i \in 1..run.num_runs |-> i]
      /\ (pc = "idle" /\ run.outcome = "returned") =>
           /\ file_exists
           /\ HasFooter
           /\ ReadNow.err = ""
           /\ Len(ReadNow.data) = run.num_runs
           /\ SeedsOf(ReadNow.data) = 1..run.num_runs

\* the writer thread has ended: with Ok, with an error or with a panic
WriterThreadEnded == wt \in {"ok", "err", "panicked"}

\* C35: in every run, with computations that terminate: the senders are
\* dropped (calculate_eigenvalues_parallel returns), the writer thread then
\* ends - its receive loop left, by the end of the channel or by a failure -
\* and the join returns, so that run_model_simulation ends, normally or in
\* the panic that follows a failed writer thread.
C35_PipelineRunTerminates ==
    /\ (pc = "computing") ~> (pc = "joining")
    /\ (pc = "joining") ~> (pc = "joining" /\ WriterThreadEnded)
    /\ (pc = "joining" /\ WriterThreadEnded)
         ~> (pc = "idle" /\ wt = "none" /\ run.outcome \in {"returned", "panic"})

\* a run of MaxNumRuns seeds whose writer thread failed, all seeds computed,
\* has ended
C35_Witness ==
    /\ pc = "idle"
    /\ run.outcome = "panic"
    /\ run.num_runs = MaxNumRuns
    /\ Len(run.sent) = MaxNumRuns
    /\ wt = "none"

\* the place of a seed in the remaining seeds, and the batch it falls in
PlaceOf(seed) == CHOOSE i \in 1..Len(run.remaining_seeds) : run.remaining_seeds[i] = seed
BatchOf(seed) == (PlaceOf(seed) - 1) \div BATCH_SIZE

\* the batches of the run: chunk 0 .. total_chunks - 1
Batches ==
    LET total_chunks == (Len(run.remaining_seeds) + BATCH_SIZE - 1) \div BATCH_SIZE
    IN  [c \in 0..(total_chunks - 1) |-> ChunkSeeds(run.remaining_seeds, c)]

\* the batches are consecutive pieces of the remaining seeds, none longer
\* than BATCH_SIZE, disjoint, and together all of them
BatchesPartition ==
    LET remaining == {run.remaining_seeds[i] : i \in 1..Len(run.remaining_seeds)}
    IN  /\ UNION {Batches[c] : c \in DOMAIN Batches} = remaining
        /\ \A c \in DOMAIN Batches :
              /\ Batches[c] # {}
              /\ Cardinality(Batches[c]) <= BATCH_SIZE
              /\ \A seed \in Batches[c] : BatchOf(seed) = c
        /\ \A c, d \in DOMAIN Batches : c # d => Batches[c] \cap Batches[d] = {}
        /\ \A c, d \in DOMAIN Batches : c < d =>
              \A x \in Batches[c], y \in Batches[d] : PlaceOf(x) < PlaceOf(y)
        /\ \A c \in DOMAIN Batches :
              c + 1 \in DOMAIN Batches => Cardinality(Batches[c]) = BATCH_SIZE

\* C36: the remaining seeds are split into consecutive batches of at most
\* BATCH_SIZE that hold every remaining seed exactly once; a seed is computed
\* and sent once and only once (into the channel while the receiver lives),
\* never before every seed of the batches in front of its own has been sent;
\* and calculate_eigenvalues_parallel returns only when every seed was sent.
C36_BatchesComputedInOrder ==
    [][/\ pc' = "computing" => BatchesPartition'
       /\ (pc = "computing" /\ run'.sent # run.sent) =>
            LET seed == run'.sent[Len(run'.sent)]
            IN  /\ run'.sent = Append(run.sent, seed)
                /\ seed \notin SentSet
                /\ \E i \in 1..Len(run.remaining_seeds) : run.remaining_seeds[i] = seed
                /\ \A i \in 1..Len(run.remaining_seeds) :
                      BatchOf(run.remaining_seeds[i]) < BatchOf(seed)
                        => run.remaining_seeds[i] \in SentSet
                /\ ReceiverAlive =>
                      chan' = Append(chan, <<seed, calculate_eigenvalues(run.dim, run.steps,
                                                                         seed, run.model)>>)
                /\ \A k \in 1..Len(chan) : chan[k][1] # seed
       /\ (pc = "computing" /\ pc' = "joining") =>
            /\ Len(run.sent) = Len(run.remaining_seeds)
            /\ SentSet = {run.remaining_seeds[i] : i \in 1..Len(run.remaining_seeds)}
      ]_vars

\* a run of three seeds: the two seeds of the first batch were sent in the
\* other order, then the seed of the second batch
C36_Witness ==
    /\ run.remaining_seeds = <<1, 2, 3>>
    /\ run.sent = <<2, 1, 3>>
    /\ pc = "joining"

\* the last Len(bytes) bytes of the file are bytes
FileEndsWith(f, bytes) ==
    /\ Len(f) >= Len(bytes)
    /\ SubSeq(f, Len(f) - Len(bytes) + 1, Len(f)) = bytes

\* C37: a writer opens with the number of records the reader found as its
\* count; an append that makes the count a multiple of FLUSH_INTERVAL leaves
\* the buffer empty and everything appended since open in the file; every
\* other append leaves bytes of its record in the buffer and hands the file
\* no more than the BufWriter spills.
C37_FlushOnIntervalOnly ==
    [][/\ (last'.op = "open" /\ last'.err = "" /\ hist'.opens = hist.opens + 1) =>
            /\ w'.buf = <<>>
            /\ w'.written_count = IF file_exists /\ ReadNow.err = ""
                                  THEN Len(ReadNow.data) ELSE 0
       /\ (last'.op = "append" /\ last'.err = "" /\ hist'.appends = hist.appends + 1) =>
            LET record == RecordsBytes(<<<<last'.seed, last'.values>>>>)
            IN  /\ w'.written_count = w.written_count + 1
                /\ file' \o w'.buf = file \o w.buf \o record
                /\ IF w'.written_count % FLUSH_INTERVAL = 0
                   THEN /\ w'.buf = <<>>
                        /\ FileEndsWith(file', RecordsBytes(hist'.accepted))
                   ELSE /\ w'.buf # <<>>
                        /\ Len(w'.buf) <= WRITE_BUFFER_CAPACITY
      ]_vars

\* a writer that found one record at open has appended one more and flushed
C37_Witness ==
    /\ w_open
    /\ last.op = "append" /\ last.err = ""
    /\ Len(hist.accepted) = 1
    /\ w.written_count = FLUSH_INTERVAL
    /\ w.buf = <<>>

\* C38: a call of run_model_simulation that met a parameter mismatch calls
\* itself at most once, whether or not remove_file succeeded.
C38_RestartsAtMostOnce == run.restarts <= 1

\* the file was finalized: the last call on it was a finish that returned
\* Ok, of a writer whose parameters are those of the file's header
JustFinished ==
    /\ file_exists
    /\ ~w_open
    /\ last.op = "finish"
    /\ last.err = ""
    /\ Len(file) >= HEADER_LEN
    /\ SubSeq(file, 1, HEADER_LEN) = HeaderBytes(last.model, last.dim, last.steps)

\* with_expected_size on f followed at once by finish
ReopenAndFinish(f, model, dim, steps) ==
    LET opened == with_expected_size(TRUE, f, model, dim, steps)
    IN  IF opened.err # "" THEN [err |-> opened.err, file |-> opened.file]
        ELSE LET r == finish(opened.w, opened.file)
             IN  [err |-> r.err, file |-> r.file]

\* C39: on a finalized file, opening a writer with the parameters of the
\* file's header and finishing without an append succeeds and leaves the
\* file as it was, byte for byte (so that doing it again changes nothing
\* either).
C39_ReopenFinishIsIdentity ==
    JustFinished =>
      LET r == ReopenAndFinish(file, last.model, last.dim, last.steps)
      IN  /\ r.err = ""
          /\ r.file = file

============================================================================
